---- MODULE Spec2Model ----
(***************************************************************************)
(* Option strategy decision system (pages/01_期权策略决策系统.py and its   *)
(* copy pages/期权策略决策系统.py): the daily-bar pipeline                 *)
(*   load_etf_data -> calculate_technical_indicators -> five-dimension     *)
(*   scoring -> strategy decision chain.                                   *)
(*                                                                         *)
(* Numbers.  The code works on floats; the model works on exact integers:  *)
(*   - prices of a row are in units of 1/PriceScale, so that every rolling *)
(*     mean over 5, 10, 20 or 60 closes is an integer;                     *)
(*   - volumes of a row are in units of 1/VolScale (5-bar mean is exact);  *)
(*   - BB_Upper is rounded down and BB_Lower rounded up to the unit, which *)
(*     keeps every comparison with the (integer) close exact;              *)
(*   - the exponential means behind MACD are fixed point (MacdScale,       *)
(*     WtScale), following the recurrence of ewm(adjust=True);             *)
(*   - a ratio is a pair <<numerator, denominator>>.                       *)
(* "No value" (NaN) is the number NaN, outside every domain used; every    *)
(* comparison with it is false, as in Python.                              *)
(***************************************************************************)
EXTENDS Integers, Sequences, FiniteSets

VARIABLES pc, df, latest, prev,
          ma_sig, macd_sig, pos_sig, energy_sig,
          hv_change, bb_change, volatility_sig,
          score, branch, advice, explain, extra,
          \* pages/05_海龟交易法则.py
          data, periods, bar, position, trail, signal, sizing, position_size,
          \* calculate_support_resistance and the page code that shows it
          df_none, window, all_levels, support_resistance, chart_lines, section,
          page_error,
          \* frames as objects: the frame a function is handed and what it returns
          frames, arg, ret, before, callee,
          \* pages/etf技术分析.py, display_comprehensive_analysis
          res_latest, res_prev, quadrants, bull_count, neutral_count,
          resonance_score, resonance_conclusion, current_advice,
          \* utils/option_utils.py, _fetch_with_retry and the cache file
          cache, retries, attempt, fetch_log, fetched, last_err, notice,
          escaped, ncalls, last_table, cache_at_call,
          \* utils/reverse_proxy.py, ensure_proxy_running in several threads
          at, calls_made, server_thread, started, alive, listening, returned,
          \* pages/期权风险分析.py, analyze_option_characteristics
          contracts, df_analysis

\* the variables of the decision page: the frame, and what the scoring sets
scoreVars == <<latest, prev, ma_sig, macd_sig, pos_sig, energy_sig,
               hv_change, bb_change, volatility_sig, score, branch, advice,
               explain, extra>>
pageVars == <<df, scoreVars>>

\* the variables of the turtle page
turtleVars == <<data, periods, bar, position, trail, signal, sizing,
                position_size>>

\* the variables of the level detector (it reads df)
levelVars == <<df_none, window, all_levels, support_resistance, chart_lines,
               section, page_error>>

\* the frame objects, the caller's frame and its content at the call, the
\* returned object, the function called
frameVars == <<frames, arg, ret, before, callee>>

\* the four-quadrant resonance analysis
resonanceVars == <<res_latest, res_prev, quadrants, bull_count, neutral_count,
                   resonance_score, resonance_conclusion, current_advice>>

\* the variables of the components below the frame objects
\* _fetch_with_retry: the cache file of cache_name, the arguments and locals
\* of the running call, what it returned and showed, whether an exception
\* left it, and for the record the number of calls, the last table an
\* attempt returned and the cache file at the start of the call
fetchVars == <<cache, retries, attempt, fetch_log, fetched, last_err, notice,
               escaped, ncalls, last_table, cache_at_call>>

\* ensure_proxy_running: where each calling thread is and how often it has
\* called, the global _server_thread, the server threads started so far,
\* those alive, the one listening on the port, the URLs returned
proxyVars == <<at, calls_made, server_thread, started, alive, listening, returned>>

\* analyze_option_characteristics: the frame handed in and the frame returned
riskVars == <<contracts, df_analysis>>

tailVars == <<resonanceVars, fetchVars, proxyVars, riskVars>>

coreVars == <<pageVars, turtleVars, levelVars, frameVars>>

vars == <<pc, pageVars, turtleVars, levelVars, frameVars, tailVars>>

(***************************************************************************)
(* No value, and Python's comparisons and truth tests on floats            *)
(***************************************************************************)
NaN == -1000000

isnan(x) == x = NaN

GT(a, b) == ~isnan(a) /\ ~isnan(b) /\ a > b
LT(a, b) == ~isnan(a) /\ ~isnan(b) /\ a < b
GE(a, b) == ~isnan(a) /\ ~isnan(b) /\ a >= b
LE(a, b) == ~isnan(a) /\ ~isnan(b) /\ a <= b

\* Series.get(key, default): the column's value, the default when the column is absent
\* variant: a missing column reads as the close
GetOrClose(row, key, default) == IF key \in DOMAIN row THEN row[key] ELSE row.close
Get(row, key, default) == IF key \in DOMAIN row THEN row[key] ELSE default

Max2(a, b) == IF a >= b THEN a ELSE b
Min2(a, b) == IF a <= b THEN a ELSE b

(***************************************************************************)
(* Units                                                                   *)
(***************************************************************************)
PriceScale == 60
VolScale == 5
MacdScale == 100
WtScale == 1000

(***************************************************************************)
(* calculate_technical_indicators: the columns the decision page reads     *)
(***************************************************************************)
\* sums over the bars a..b of a window, by halves
RECURSIVE SumField(_, _, _, _)
SumField(d, f, a, b) ==
    IF a > b THEN 0
    ELSE IF a = b THEN d[a][f]
    ELSE LET m == (a + b) \div 2
         IN  SumField(d, f, a, m) + SumField(d, f, m + 1, b)

RECURSIVE SumSqClose(_, _, _)
SumSqClose(d, a, b) ==
    IF a > b THEN 0
    ELSE IF a = b THEN d[a].close * d[a].close
    ELSE LET m == (a + b) \div 2
         IN  SumSqClose(d, a, m) + SumSqClose(d, m + 1, b)

\* variant: a mean over the bars there are (min_periods = 1)
RollingMeanPartial(d, f, w, i, scale) ==
    IF i < w THEN (scale * SumField(d, f, 1, i)) \div i
    ELSE (scale \div w) * SumField(d, f, i - w + 1, i)

\* df[col].rolling(w).mean() at (1-based) index i, times scale
RollingMean(d, f, w, i, scale) ==
    IF i < w THEN NaN ELSE (scale \div w) * SumField(d, f, i - w + 1, i)

RECURSIVE IsqrtIter(_, _, _)
IsqrtIter(x, lo, hi) ==
    IF lo >= hi THEN lo
    ELSE LET mid == (lo + hi + 1) \div 2
         IN  IF mid * mid <= x THEN IsqrtIter(x, mid, hi)
                               ELSE IsqrtIter(x, lo, mid - 1)

\* floor of the square root
Isqrt(x) == IsqrtIter(x, 0, 46340)

\* 2 * df["收盘"].rolling(20).std() (sample deviation, ddof = 1) at index i,
\* times PriceScale, rounded down
BBHalfWidth(d, i) ==
    IF i < 20 THEN NaN
    ELSE LET s == SumField(d, "close", i - 19, i)
             q == 20 * SumSqClose(d, i - 19, i) - s * s
         IN  Isqrt((4 * PriceScale * PriceScale * q) \div (20 * 19))

\* one bar of the adjusted recurrence of Series.ewm(span=span).mean(): the
\* old weight decays by (span - 1) / (span + 1), the new bar weighs 1, and
\* the mean is left alone on a bar equal to it
EwmStep(st, cur, span) ==
    LET ow == (st.old_wt * (span - 1)) \div (span + 1)
        w == IF st.weighted # cur
             THEN (ow * st.weighted + WtScale * cur) \div (ow + WtScale)
             ELSE st.weighted
    IN  [mean |-> Append(st.mean, w), weighted |-> w, old_wt |-> ow + WtScale]

\* the recurrence over the bars a..b in order, by halves
RECURSIVE EwmFold(_, _, _, _, _)
EwmFold(st, xs, span, a, b) ==
    IF a > b THEN st
    ELSE IF a = b THEN EwmStep(st, xs[a], span)
    ELSE LET m == (a + b) \div 2
             first == EwmFold(st, xs, span, a, m)
         IN  \* the first half is computed before the second half starts
             IF Len(first.mean) > 0 THEN EwmFold(first, xs, span, m + 1, b)
                                    ELSE first

\* Series.ewm(span=span).mean() over xs[1..k]
ewm(xs, span, k) ==
    EwmFold([mean |-> <<xs[1]>>, weighted |-> xs[1], old_wt |-> WtScale],
            xs, span, 2, k)

CloseCol(d) == [i \in 1..Len(d) |-> MacdScale * d[i].close]

\* df["MACD"] = exp1 - exp2
MACDCol(d) ==
    LET exp1 == ewm(CloseCol(d), 12, Len(d)).mean
        exp2 == ewm(CloseCol(d), 26, Len(d)).mean
    IN  [i \in 1..Len(d) |-> exp1[i] - exp2[i]]

\* df["MACD_Signal"] = df["MACD"].ewm(span=9).mean()
MACDSignalCol(d) == ewm(MACDCol(d), 9, Len(d)).mean

\* row i of the enriched frame
RowAt(d, i) ==
    LET mid == RollingMean(d, "close", 20, i, PriceScale)
        hw == BBHalfWidth(d, i)
    IN  [open |-> PriceScale * d[i].open,
         high |-> PriceScale * d[i].high,
         low |-> PriceScale * d[i].low,
         close |-> PriceScale * d[i].close,
         volume |-> VolScale * d[i].volume,
         MA5 |-> RollingMean(d, "close", 5, i, PriceScale),
         MA10 |-> RollingMean(d, "close", 10, i, PriceScale),
         MA20 |-> RollingMean(d, "close", 20, i, PriceScale),
         MA60 |-> RollingMean(d, "close", 60, i, PriceScale),
         MACD |-> MACDCol(d)[i],
         MACD_Signal |-> MACDSignalCol(d)[i],
         BB_Middle |-> mid,
         BB_Upper |-> IF isnan(mid) THEN NaN ELSE mid + hw,
         BB_Lower |-> IF isnan(mid) THEN NaN ELSE mid - hw,
         Volume_MA5 |-> RollingMean(d, "volume", 5, i, VolScale)]

calculate_technical_indicators(d) == [i \in 1..Len(d) |-> RowAt(d, i)]

(***************************************************************************)
(* Five-dimension scoring                                                  *)
(***************************************************************************)
\* 1) trend
\* variant: the alignment of the averages alone
ma_bull_noclose(r) == GT(r.MA5, r.MA10) /\ GT(r.MA10, r.MA20)
ma_bull(r) == GT(r.close, r.MA20) /\ GT(r.MA5, r.MA10) /\ GT(r.MA10, r.MA20)
ma_bear(r) == LT(r.close, r.MA20) /\ LT(r.MA5, r.MA10) /\ LT(r.MA10, r.MA20)
MaSig(r) == IF ma_bull(r) THEN 1 ELSE IF ma_bear(r) THEN -1 ELSE 0

\* 2) momentum
macd_above0(r) == GT(r.MACD, 0)
macd_bullish(r) == GT(r.MACD, r.MACD_Signal)
macd_below0(r) == LT(r.MACD, 0)
macd_bearish(r) == LT(r.MACD, r.MACD_Signal)
\* variant: a bullish crossing needs the signal line below zero
MacdSigCross(r) ==
    IF macd_above0(r) /\ LT(r.MACD_Signal, 0) THEN 1
    ELSE IF macd_below0(r) /\ GT(r.MACD_Signal, 0) THEN -1 ELSE 0
MacdSig(r) ==
    IF macd_above0(r) /\ macd_bullish(r) THEN 1
    ELSE IF macd_below0(r) /\ macd_bearish(r) THEN -1 ELSE 0

\* 3) position
bb_mid(r) == Get(r, "BB_Middle", NaN)
bb_up(r) == Get(r, "BB_Upper", NaN)
bb_low(r) == Get(r, "BB_Lower", NaN)
price(r) == r.close
\* variant: a close on the middle band counts as above it
pos_long_ge(r) ==
    ~isnan(bb_mid(r)) /\ GE(price(r), bb_mid(r)) /\ LE(price(r), bb_up(r))
pos_long(r) ==
    ~isnan(bb_mid(r)) /\ GT(price(r), bb_mid(r)) /\ LE(price(r), bb_up(r))
pos_short(r) ==
    ~isnan(bb_mid(r)) /\ LT(price(r), bb_mid(r)) /\ GE(price(r), bb_low(r))
\* variant: a close on a band counts as outside it
pos_neutral_extreme_ge(r) ==
    \/ ~isnan(bb_up(r)) /\ GE(price(r), bb_up(r))
    \/ ~isnan(bb_low(r)) /\ LE(price(r), bb_low(r))
pos_neutral_extreme(r) ==
    \/ ~isnan(bb_up(r)) /\ GT(price(r), bb_up(r))
    \/ ~isnan(bb_low(r)) /\ LT(price(r), bb_low(r))
PosSig(r) ==
    IF pos_neutral_extreme(r) THEN 0
    ELSE IF pos_long(r) THEN 1 ELSE IF pos_short(r) THEN -1 ELSE 0

\* 4) energy
NaNRatio == <<0, 0>>
ratio_isnan(q) == q[2] = 0
\* q > n/m for a ratio q with a positive denominator
RatioGT(q, n, m) == ~ratio_isnan(q) /\ q[1] * m > n * q[2]

vol_ma5(r) == Get(r, "Volume_MA5", NaN)
vol_ratio(r) ==
    IF vol_ma5(r) # 0 /\ ~isnan(vol_ma5(r)) /\ vol_ma5(r) # 0
    THEN <<r.volume, vol_ma5(r)>> ELSE NaNRatio
\* variant: a bar that closes where it opened is not an up day
is_up_day_strict(r) == GT(r.close, r.open)
is_up_day(r) == GE(r.close, r.open)
energy_long(r) ==
    ~ratio_isnan(vol_ratio(r)) /\ RatioGT(vol_ratio(r), 12, 10) /\ is_up_day(r)
energy_short(r) ==
    ~ratio_isnan(vol_ratio(r)) /\ RatioGT(vol_ratio(r), 12, 10) /\ ~is_up_day(r)
EnergySig(r) == IF energy_long(r) THEN 1 ELSE IF energy_short(r) THEN -1 ELSE 0

\* 5) volatility
hv20_current(r) == Get(r, "HV20", NaN)
hv20_prev(d, p) == IF Len(d) >= 2 THEN Get(p, "HV20", NaN) ELSE NaN
bb_width_current(r) == Get(r, "BB_Width", NaN)
bb_width_ma5(r) == Get(r, "BB_Width_MA5", NaN)

\* cur > ref * pct/100 and cur < ref * pct/100
AbovePct(cur, ref, pct) == 100 * cur > pct * ref
BelowPct(cur, ref, pct) == 100 * cur < pct * ref

HvChange(d, r, p) ==
    IF ~isnan(hv20_current(r)) /\ ~isnan(hv20_prev(d, p))
    THEN IF AbovePct(hv20_current(r), hv20_prev(d, p), 105) THEN 1
         ELSE IF BelowPct(hv20_current(r), hv20_prev(d, p), 95) THEN -1 ELSE 0
    ELSE 0

BbChange(r) ==
    IF ~isnan(bb_width_current(r)) /\ ~isnan(bb_width_ma5(r))
    THEN IF AbovePct(bb_width_current(r), bb_width_ma5(r), 110) THEN 1
         ELSE IF BelowPct(bb_width_current(r), bb_width_ma5(r), 90) THEN -1 ELSE 0
    ELSE 0

\* variant: the historical-volatility comparison decides when it has a direction
VolatilitySigHvFirst(hv, bb) ==
    IF hv # 0 THEN hv ELSE bb
VolatilitySig(hv, bb) ==
    IF hv > 0 \/ bb > 0 THEN 1
    ELSE IF hv < 0 \/ bb < 0 THEN -1 ELSE 0

\* variant: trend and momentum count double
TotalScoreWeighted(ma, macd, pos, energy, vol) ==
    2 * ma + 2 * macd + pos + energy + vol

\* score = ma_sig + macd_sig + pos_sig + energy_sig + volatility_sig
TotalScore(ma, macd, pos, energy, vol) == ma + macd + pos + energy + vol

(***************************************************************************)
(* Strategy decision chain                                                 *)
(***************************************************************************)
\* variant: the first branch also takes a composite of 3
CondOverlap(k, s) ==
    CASE k = 1 -> s >= 3
      [] k = 2 -> s <= -4
      [] k = 3 -> s = 3
      [] k = 4 -> s = 2
      [] k = 5 -> s = -2
      [] k = 6 -> s = -3

\* the conditions of the if / elif chain on the composite, in source order
Cond(k, s) ==
    CASE k = 1 -> s >= 4
      [] k = 2 -> s <= -4
      [] k = 3 -> s = 3
      [] k = 4 -> s = 2
      [] k = 5 -> s = -2
      [] k = 6 -> s = -3

\* variant: the volatility refinement also takes a composite of 2 or -2
BranchWideBand(s, v) ==
    IF Cond(1, s) THEN 1
    ELSE IF Cond(2, s) THEN 2
    ELSE IF Cond(3, s) THEN 3
    ELSE IF Cond(6, s) THEN 6
    ELSE IF v = 1 THEN 7
    ELSE IF v = -1 THEN 8
    ELSE 9

\* the branch the chain takes: 1..6 the elif branches, 7..9 the volatility
\* refinement of the final else
Branch(s, v) ==
    IF Cond(1, s) THEN 1
    ELSE IF Cond(2, s) THEN 2
    ELSE IF Cond(3, s) THEN 3
    ELSE IF Cond(4, s) THEN 4
    ELSE IF Cond(5, s) THEN 5
    ELSE IF Cond(6, s) THEN 6
    ELSE IF v = 1 THEN 7
    ELSE IF v = -1 THEN 8
    ELSE 9

\* the four execution notes a branch assigns to extra
Notes(tag) == <<"entry: " \o tag, "sizing: " \o tag, "risk: " \o tag, "follow-up: " \o tag>>

\* what each branch assigns to advice, explain and extra
Recommendation(b) ==
    CASE b = 1 -> [advice |-> "Bull Call Spread + Sell Put",
                   explain |-> "very strong bullish signal with high volatility",
                   extra |-> Notes("call spread plus short put")]
      [] b = 2 -> [advice |-> "Bear Put Spread + Sell Call",
                   explain |-> "very strong bearish signal with high volatility",
                   extra |-> Notes("put spread plus short call")]
      [] b = 3 -> [advice |-> "Bull Call Spread",
                   explain |-> "fairly strong bullish signal",
                   extra |-> Notes("call spread")]
      [] b = 4 -> [advice |-> "Sell Put",
                   explain |-> "mild bullish signal",
                   extra |-> Notes("short put")]
      [] b = 5 -> [advice |-> "Sell Call",
                   explain |-> "mild bearish signal",
                   extra |-> Notes("short call")]
      [] b = 6 -> [advice |-> "Bear Put Spread",
                   explain |-> "fairly strong bearish signal",
                   extra |-> Notes("put spread")]
      [] b = 7 -> [advice |-> "Short Strangle / Iron Butterfly",
                   explain |-> "no direction, high volatility",
                   extra |-> Notes("short strangle")]
      [] b = 8 -> [advice |-> "Long Strangle / Long Options",
                   explain |-> "no direction, low volatility",
                   extra |-> Notes("long strangle")]
      [] b = 9 -> [advice |-> "Iron Butterfly",
                   explain |-> "no direction, stable volatility",
                   extra |-> Notes("iron butterfly")]

\* the mapping the page prints under "策略映射"
RuleDoc(s, v) ==
    IF s >= 4 THEN "Bull Call Spread + Sell Put"
    ELSE IF s = 3 THEN "Bull Call Spread"
    ELSE IF s = 2 THEN "Sell Put"
    ELSE IF s = -2 THEN "Sell Call"
    ELSE IF s = -3 THEN "Bear Put Spread"
    ELSE IF s <= -4 THEN "Bear Put Spread + Sell Call"
    ELSE IF v = 1 THEN "Short Strangle / Iron Butterfly"
    ELSE IF v = -1 THEN "Long Strangle / Long Options"
    ELSE "Iron Butterfly"

(***************************************************************************)
(* The page script, step by step                                           *)
(***************************************************************************)
\* before the turtle page has run: no periods chosen, no calculator inputs
NoPeriods == [entry_period |-> 0, exit_period |-> 0, atr_period |-> 0]
NoSizing == [account_size |-> 0, risk_percent |-> 0, atr_multiple |-> 0]

\* A Python value that is None or a dict: keys are the keys present.
NoneValue ==
    [kind |-> "None", keys |-> {}, supports |-> <<>>, resistances |-> <<>>,
     current_price |-> NaN, all_levels |-> <<>>]
\* return {}
EmptyDict ==
    [kind |-> "dict", keys |-> {}, supports |-> <<>>, resistances |-> <<>>,
     current_price |-> NaN, all_levels |-> <<>>]

\* before the level section has run
NoSection ==
    [shown |-> "", near_support |-> FALSE, near_resistance |-> FALSE,
     range_trade |-> FALSE]

\* the threads that call ensure_proxy_running, and the calls of each
MaxCallers == 2
MaxProxyCalls == 2
Callers == 1..MaxCallers

\* the cache file: missing, of zero bytes, or a header line and data lines
NoFile == [kind |-> "missing", lines |-> <<>>]
EmptyFile == [kind |-> "zero bytes", lines |-> <<>>]
CsvFile(ls) == [kind |-> "csv", lines |-> ls]

\* the call has not returned
NoReturn == [returned |-> FALSE, table |-> <<>>]
Return(t) == [returned |-> TRUE, table |-> t]

\* the four statuses before the analysis
NoQuadrants == [trend |-> "", osc |-> "", energy |-> "", space |-> ""]

\* no frame handed over yet
NoFrame == [columns |-> {}, rows |-> <<>>]

\* before the frame is enriched there is no row
NoRow ==
    [open |-> NaN, high |-> NaN, low |-> NaN, close |-> NaN, volume |-> NaN,
     MA5 |-> NaN, MA10 |-> NaN, MA20 |-> NaN, MA60 |-> NaN, MACD |-> NaN,
     MACD_Signal |-> NaN, BB_Middle |-> NaN, BB_Upper |-> NaN, BB_Lower |-> NaN,
     Volume_MA5 |-> NaN]

Init ==
    /\ pc = "load"
    /\ df = <<>>
    /\ latest = NoRow
    /\ prev = NoRow
    /\ ma_sig = 0 /\ macd_sig = 0 /\ pos_sig = 0 /\ energy_sig = 0
    /\ hv_change = 0 /\ bb_change = 0 /\ volatility_sig = 0
    /\ score = 0
    /\ branch = 0
    /\ advice = "" /\ explain = "" /\ extra = <<>>
    /\ data = <<>>
    /\ periods = NoPeriods
    /\ bar = 0
    /\ position = "flat"
    /\ trail = <<>>
    /\ signal = ""
    /\ sizing = NoSizing
    /\ position_size = 0
    /\ df_none = FALSE
    /\ window = 0
    /\ all_levels = <<>>
    /\ support_resistance = EmptyDict
    /\ chart_lines = [supports |-> 0, resistances |-> 0]
    /\ section = NoSection
    /\ page_error = ""
    /\ frames = <<>>
    /\ arg = 0
    /\ ret = 0
    /\ before = NoFrame
    /\ callee = ""
    /\ res_latest = NoRow
    /\ res_prev = NoRow
    /\ quadrants = NoQuadrants
    /\ bull_count = 0
    /\ neutral_count = 0
    /\ resonance_score = 0
    /\ resonance_conclusion = ""
    /\ current_advice = ""
    /\ cache = NoFile
    /\ retries = 0
    /\ attempt = 0
    /\ fetch_log = <<>>
    /\ fetched = NoReturn
    /\ last_err = ""
    /\ notice = ""
    /\ escaped = FALSE
    /\ ncalls = 0
    /\ last_table = <<>>
    /\ cache_at_call = NoFile
    /\ at = [c \in Callers |-> "idle"]
    /\ calls_made = [c \in Callers |-> 0]
    /\ server_thread = 0
    /\ started = 0
    /\ alive = {}
    /\ listening = 0
    /\ returned = {}
    /\ contracts = <<>>
    /\ df_analysis = <<>>

\* df = load_etf_data(...); the script stops on an empty frame
LoadData(s) ==
    /\ pc = "load"
    /\ Len(s) >= 1
    /\ df' = s
    /\ pc' = "indicators"
    /\ UNCHANGED <<latest, prev, ma_sig, macd_sig, pos_sig, energy_sig,
                   hv_change, bb_change, volatility_sig, score, branch,
                   advice, explain, extra>>
    /\ UNCHANGED <<turtleVars, levelVars, frameVars, tailVars>>

\* df = calculate_technical_indicators(df); latest = df.iloc[-1];
\* prev = df.iloc[-2] if len(df) >= 2 else latest
CalcIndicators ==
    /\ pc = "indicators"
    /\ latest' = RowAt(df, Len(df))
    /\ prev' = IF Len(df) >= 2 THEN RowAt(df, Len(df) - 1) ELSE RowAt(df, Len(df))
    /\ pc' = "trend"
    /\ UNCHANGED <<df, ma_sig, macd_sig, pos_sig, energy_sig, hv_change,
                   bb_change, volatility_sig, score, branch, advice, explain,
                   extra>>
    /\ UNCHANGED <<turtleVars, levelVars, frameVars, tailVars>>

\* Each scoring step takes the enriched row r it reads: the row computed by
\* CalcIndicators, or any row with the same bar.
ScoreTrend(r) ==
    /\ pc = "trend"
    /\ latest' = r
    /\ ma_sig' = MaSig(r)
    /\ pc' = "momentum"
    /\ UNCHANGED <<df, prev, macd_sig, pos_sig, energy_sig, hv_change,
                   bb_change, volatility_sig, score, branch, advice, explain,
                   extra>>
    /\ UNCHANGED <<turtleVars, levelVars, frameVars, tailVars>>

ScoreMomentum(r) ==
    /\ pc = "momentum"
    /\ latest' = r
    /\ macd_sig' = MacdSig(r)
    /\ pc' = "position"
    /\ UNCHANGED <<df, prev, ma_sig, pos_sig, energy_sig, hv_change,
                   bb_change, volatility_sig, score, branch, advice, explain,
                   extra>>
    /\ UNCHANGED <<turtleVars, levelVars, frameVars, tailVars>>

ScorePosition(r) ==
    /\ pc = "position"
    /\ latest' = r
    /\ pos_sig' = PosSig(r)
    /\ pc' = "energy"
    /\ UNCHANGED <<df, prev, ma_sig, macd_sig, energy_sig, hv_change,
                   bb_change, volatility_sig, score, branch, advice, explain,
                   extra>>
    /\ UNCHANGED <<turtleVars, levelVars, frameVars, tailVars>>

ScoreEnergy(r) ==
    /\ pc = "energy"
    /\ latest' = r
    /\ energy_sig' = EnergySig(r)
    /\ pc' = "volatility"
    /\ UNCHANGED <<df, prev, ma_sig, macd_sig, pos_sig, hv_change, bb_change,
                   volatility_sig, score, branch, advice, explain, extra>>
    /\ UNCHANGED <<turtleVars, levelVars, frameVars, tailVars>>

ScoreVolatility(r, p) ==
    /\ pc = "volatility"
    /\ latest' = r
    /\ prev' = p
    /\ hv_change' = HvChange(df, r, p)
    /\ bb_change' = BbChange(r)
    /\ volatility_sig' = VolatilitySig(HvChange(df, r, p), BbChange(r))
    /\ pc' = "total"
    /\ UNCHANGED <<df, ma_sig, macd_sig, pos_sig, energy_sig, score, branch,
                   advice, explain, extra>>
    /\ UNCHANGED <<turtleVars, levelVars, frameVars, tailVars>>

ScoreTotal ==
    /\ pc = "total"
    /\ score' = TotalScore(ma_sig, macd_sig, pos_sig, energy_sig, volatility_sig)
    /\ pc' = "decide"
    /\ UNCHANGED <<df, latest, prev, ma_sig, macd_sig, pos_sig, energy_sig,
                   hv_change, bb_change, volatility_sig, branch, advice,
                   explain, extra>>
    /\ UNCHANGED <<turtleVars, levelVars, frameVars, tailVars>>

Decide ==
    /\ pc = "decide"
    /\ branch' = Branch(score, volatility_sig)
    /\ advice' = Recommendation(Branch(score, volatility_sig)).advice
    /\ explain' = Recommendation(Branch(score, volatility_sig)).explain
    /\ extra' = Recommendation(Branch(score, volatility_sig)).extra
    /\ pc' = "done"
    /\ UNCHANGED <<df, latest, prev, ma_sig, macd_sig, pos_sig, energy_sig,
                   hv_change, bb_change, volatility_sig, score>>
    /\ UNCHANGED <<turtleVars, levelVars, frameVars, tailVars>>

(***************************************************************************)
(* Inputs                                                                  *)
(***************************************************************************)
MkBar(o, c, v) ==
    [open |-> o, high |-> Max2(o, c), low |-> Min2(o, c), close |-> c, volume |-> v]

\* (a) the scorer's contract: one or two bars, and per step every value of
\*     the indicator columns that step reads, "no value" included
MaxPrice == 4
OpenPx == 2
VolumeVals == {5, 6, 7}
ShortSeries ==
    LET last == {MkBar(OpenPx, c, v) : c \in 1..MaxPrice, v \in VolumeVals}
    IN  {<<b>> : b \in last} \cup {<<MkBar(OpenPx, OpenPx, 5), b>> : b \in last}

MAVals == {NaN} \cup {PriceScale * k : k \in 1..3}
MACDVals == {NaN, -1, 0, 1}
BandMids == {PriceScale * k : k \in 2..3}
BandHalfWidths == {0, PriceScale}
VolMAVals == {NaN, 0, 5 * VolScale}
HVVals == {NaN, 100, 110}
WidthVals == {NaN, 100, 120}

\* the bar of a row, every indicator column without a value
BarOnly(r) ==
    [open |-> r.open, high |-> r.high, low |-> r.low, close |-> r.close,
     volume |-> r.volume, MA5 |-> NaN, MA10 |-> NaN, MA20 |-> NaN, MA60 |-> NaN,
     MACD |-> NaN, MACD_Signal |-> NaN, BB_Middle |-> NaN, BB_Upper |-> NaN,
     BB_Lower |-> NaN, Volume_MA5 |-> NaN]

TrendRows(r) ==
    {[BarOnly(r) EXCEPT !.MA5 = a, !.MA10 = b, !.MA20 = c] :
        a \in MAVals, b \in MAVals, c \in MAVals}

MomentumRows(r) ==
    {[BarOnly(r) EXCEPT !.MACD = m, !.MACD_Signal = g] :
        m \in MACDVals, g \in MACDVals}

\* the three bands have a value together: middle, middle + 2 std, middle - 2 std
PositionRows(r) ==
    {BarOnly(r)} \cup
    {[BarOnly(r) EXCEPT !.BB_Middle = m, !.BB_Upper = m + w, !.BB_Lower = m - w] :
        m \in BandMids, w \in BandHalfWidths}

EnergyRows(r) == {[BarOnly(r) EXCEPT !.Volume_MA5 = a] : a \in VolMAVals}

WithVol(r, hv, bw, bwma) ==
    [k \in DOMAIN r \cup {"HV20", "BB_Width", "BB_Width_MA5"} |->
        IF k = "HV20" THEN hv
        ELSE IF k = "BB_Width" THEN bw
        ELSE IF k = "BB_Width_MA5" THEN bwma
        ELSE r[k]]

VolatilityRows(r) ==
    {WithVol(BarOnly(r), hv, bw, bwma) :
        hv \in HVVals, bw \in WidthVals, bwma \in WidthVals}

PrevRows(d, r, p) ==
    IF Len(d) >= 2 THEN {WithVol(BarOnly(p), hv, NaN, NaN) : hv \in HVVals}
    ELSE {r}

\* (b) the pipeline: a family of daily series of 1..MaxBars bars; closes move
\*     by Slope per bar, the last bar by Jump more; each bar opens at the
\*     previous close; the last bar's volume is LastVolume
MaxBars == 61
BasePrice == 100
Jump == 30
BaseVolume == 7
HighVolume == 12
Slopes == {-1, 0, 1}
Jumps == {-Jump, 0, Jump}
LastVolumes == {BaseVolume, HighVolume}

CloseAt(n, sl, j, i) == BasePrice + sl * (i - 1) + (IF i = n THEN j ELSE 0)

Series(n, sl, j, v) ==
    [i \in 1..n |->
        MkBar(IF i = 1 THEN CloseAt(n, sl, j, 1) ELSE CloseAt(n, sl, j, i - 1),
              CloseAt(n, sl, j, i),
              IF i = n THEN v ELSE BaseVolume)]

FamilySeries ==
    {Series(n, sl, j, v) : n \in 1..MaxBars, sl \in Slopes, j \in Jumps,
                           v \in LastVolumes}

(***************************************************************************)
(* pages/05_海龟交易法则.py: ATR, Donchian channels, breakout signals and   *)
(* the position calculator.  A turtle frame is a sequence of rows with the *)
(* columns high, low, close (whole price units); the signal columns are    *)
(* added by turtle_strategy_signals.  The page calls it with more than 30  *)
(* bars and the default periods 20/10/20; the model takes every period the *)
(* function accepts, on short series.                                      *)
(***************************************************************************)
Abs(x) == IF x < 0 THEN -x ELSE x

\* np.maximum(high_low, np.maximum(high_close, low_close)); close.shift() has
\* no value on the first bar and np.maximum hands that on
true_range(d, i) ==
    IF i = 1 THEN NaN
    ELSE Max2(d[i].high - d[i].low,
              Max2(Abs(d[i].high - d[i - 1].close), Abs(d[i].low - d[i - 1].close)))

RECURSIVE SumTrueRange(_, _, _)
SumTrueRange(d, a, b) ==
    IF a > b THEN 0 ELSE true_range(d, b) + SumTrueRange(d, a, b - 1)

\* true_range.rolling(window=period).mean(): the ratio <<sum, period>>, and
\* no value while the window holds fewer than period values
calculate_atr(d, period, i) ==
    IF i < period \/ \E k \in (i - period + 1)..i : isnan(true_range(d, k))
    THEN NaNRatio
    ELSE <<SumTrueRange(d, i - period + 1, i), period>>

RECURSIVE RollingMaxHigh(_, _, _)
RollingMaxHigh(d, a, b) ==
    IF a = b THEN d[a].high ELSE Max2(d[b].high, RollingMaxHigh(d, a, b - 1))

RECURSIVE RollingMinLow(_, _, _)
RollingMinLow(d, a, b) ==
    IF a = b THEN d[a].low ELSE Min2(d[b].low, RollingMinLow(d, a, b - 1))

\* calculate_donchian_channels: high.rolling(period).max(), low.rolling(period).min()
upper_channel(d, period, i) ==
    IF i < period THEN NaN ELSE RollingMaxHigh(d, i - period + 1, i)
\* variant: the lower channel taken from the highs
lower_channel_of_highs(d, period, i) ==
    IF i < period THEN NaN ELSE RollingMaxHigh(d, i - period + 1, i)
lower_channel(d, period, i) ==
    IF i < period THEN NaN ELSE RollingMinLow(d, i - period + 1, i)

entry_high(d, P, i) == upper_channel(d, P.entry_period, i)
entry_low(d, P, i) == lower_channel(d, P.entry_period, i)
exit_high(d, P, i) == upper_channel(d, P.exit_period, i)
exit_low(d, P, i) == lower_channel(d, P.exit_period, i)

\* variant: the entry channel of the bar itself
long_entry_nolag(d, P, i) == GT(d[i].close, entry_high(d, P, i))
\* data['close'] > data['entry_high'].shift(1)
long_entry(d, P, i) ==
    GT(d[i].close, IF i = 1 THEN NaN ELSE entry_high(d, P, i - 1))

\* variant: the exit channel of the bar itself
long_exit_nolag(d, P, i) == LT(d[i].close, exit_low(d, P, i))
\* data['close'] < data['exit_low'].shift(1)
long_exit(d, P, i) ==
    LT(d[i].close, IF i = 1 THEN NaN ELSE exit_low(d, P, i - 1))

\* data['close'] < data['entry_low'].shift(1)
short_entry(d, P, i) ==
    LT(d[i].close, IF i = 1 THEN NaN ELSE entry_low(d, P, i - 1))

\* data['close'] > data['exit_high'].shift(1)
short_exit(d, P, i) ==
    GT(d[i].close, IF i = 1 THEN NaN ELSE exit_high(d, P, i - 1))

\* the frame with its nine new columns
turtle_strategy_signals(d, P) ==
    [i \in 1..Len(d) |->
        [high |-> d[i].high, low |-> d[i].low, close |-> d[i].close,
         ATR |-> calculate_atr(d, P.atr_period, i),
         entry_high |-> entry_high(d, P, i), entry_low |-> entry_low(d, P, i),
         exit_high |-> exit_high(d, P, i), exit_low |-> exit_low(d, P, i),
         long_entry |-> long_entry(d, P, i), long_exit |-> long_exit(d, P, i),
         short_entry |-> short_entry(d, P, i), short_exit |-> short_exit(d, P, i)]]

\* show_real_time_signals: the label of the latest bar
SignalLabel(row) ==
    IF row.long_entry THEN "long entry"
    ELSE IF row.short_entry THEN "short entry"
    ELSE IF row.long_exit THEN "long exit"
    ELSE IF row.short_exit THEN "short exit"
    ELSE "no signal"

\* The position of a trader who follows the four signal columns bar by bar
\* (the page keeps no position; the transitions are those of the written
\* rules: flat -> long, flat -> short, long -> flat, short -> flat).
TurtleStep(p, row) ==
    IF p = "flat"
    THEN IF row.long_entry THEN "long"
         ELSE IF row.short_entry THEN "short" ELSE "flat"
    ELSE IF p = "long"
    THEN IF row.long_exit THEN "flat" ELSE "long"
    ELSE IF row.short_exit THEN "flat" ELSE "short"

\* Python's int() of the quotient n / m of two integers, m > 0
IntOfQuotient(n, m) == IF n >= 0 THEN n \div m ELSE -((-n) \div m)

\* risk_amount = account_size * (risk_percent / 100), risk_percent in tenths
risk_amount(z) == <<z.account_size * z.risk_percent, 1000>>

\* stop_distance = atr_value * atr_multiple, atr_multiple in tenths
stop_distance(atr, z) ==
    IF ratio_isnan(atr) THEN NaNRatio ELSE <<atr[1] * z.atr_multiple, atr[2] * 10>>

\* variant: the units are rounded up
PositionSizeCeil(atr, z) ==
    IF ~ratio_isnan(stop_distance(atr, z)) /\ stop_distance(atr, z)[1] > 0
    THEN IntOfQuotient(risk_amount(z)[1] * stop_distance(atr, z)[2]
                         + risk_amount(z)[2] * stop_distance(atr, z)[1] - 1,
                       risk_amount(z)[2] * stop_distance(atr, z)[1])
    ELSE 0
\* position_size = int(risk_amount / stop_distance) if stop_distance > 0 else 0
PositionSize(atr, z) ==
    IF ~ratio_isnan(stop_distance(atr, z)) /\ stop_distance(atr, z)[1] > 0
    THEN IntOfQuotient(risk_amount(z)[1] * stop_distance(atr, z)[2],
                       risk_amount(z)[2] * stop_distance(atr, z)[1])
    ELSE 0

\* data = load_data(code, "etf", "daily", 50)
TurtleLoad(s, P) ==
    /\ pc = "load"
    /\ Len(s) >= 1
    /\ data' = s
    /\ periods' = P
    /\ pc' = "signals"
    /\ UNCHANGED <<bar, position, trail, signal, sizing, position_size>>
    /\ UNCHANGED <<pageVars, levelVars, frameVars, tailVars>>

\* data = turtle_strategy_signals(data): the columns are added to the frame
TurtleSignals ==
    /\ pc = "signals"
    /\ data' = turtle_strategy_signals(data, periods)
    /\ pc' = "turtle page"
    /\ UNCHANGED <<periods, bar, position, trail, signal, sizing, position_size>>
    /\ UNCHANGED <<pageVars, levelVars, frameVars, tailVars>>

\* show_real_time_signals: latest = data.iloc[-1] and its label
ShowRealTimeSignal ==
    /\ pc = "turtle page"
    /\ signal' = SignalLabel(data[Len(data)])
    /\ bar' = 0
    /\ position' = "flat"
    /\ trail' = <<>>
    /\ pc' = "scan"
    /\ UNCHANGED <<data, periods, sizing, position_size>>
    /\ UNCHANGED <<pageVars, levelVars, frameVars, tailVars>>

\* the signals followed one bar at a time
ScanBar ==
    /\ pc = "scan"
    /\ bar < Len(data)
    /\ bar' = bar + 1
    /\ position' = TurtleStep(position, data[bar + 1])
    /\ trail' = Append(trail, TurtleStep(position, data[bar + 1]))
    /\ UNCHANGED <<pc, data, periods, signal, sizing, position_size>>
    /\ UNCHANGED <<pageVars, levelVars, frameVars, tailVars>>

\* show_risk_management: the position calculator on the latest ATR
RiskManagement(z) ==
    /\ pc = "turtle page"
    /\ sizing' = z
    /\ position_size' = PositionSize(data[Len(data)].ATR, z)
    /\ pc' = "sized"
    /\ UNCHANGED <<data, periods, bar, position, trail, signal>>
    /\ UNCHANGED <<pageVars, levelVars, frameVars, tailVars>>

\* turtle inputs: bars around a close, series of 1..MaxTurtleBars bars
MaxTurtleBars == 4
MaxTurtlePrice == 3
TurtleBars ==
    {[high |-> c + w, low |-> c - w, close |-> c] :
        c \in 1..MaxTurtlePrice, w \in 0..1}
    \cup {[high |-> 2, low |-> 2, close |-> MaxTurtlePrice]}
TurtleSeries == UNION {[1..n -> TurtleBars] : n \in 1..MaxTurtleBars}
TurtlePeriods ==
    {[entry_period |-> e, exit_period |-> x, atr_period |-> 2] :
        e \in 2..3, x \in 1..2}
SizingInputs ==
    {[account_size |-> a, risk_percent |-> r, atr_multiple |-> m] :
        a \in {10000, 100000}, r \in {5, 11}, m \in {20, 23}}

(***************************************************************************)
(* calculate_support_resistance (pages/01_期权策略决策系统.py) and the page *)
(* code that shows its result.  Prices of a level frame are whole ticks:   *)
(* PriceOne ticks are the price 1.0 and the bars lie on multiples of       *)
(* BinGrid ticks, so that the middle of every histogram bin is a whole     *)
(* tick.  The price of a merged level is the ratio <<sum, count>> of its   *)
(* members.                                                                *)
(***************************************************************************)
PriceOne == 400
BinGrid == 40
bins == 20

\* recent_df = df.tail(min(100, len(df)))
recent_df(d) == SubSeq(d, Len(d) - Min2(100, Len(d)) + 1, Len(d))

\* the highest 最高 and the lowest 最低 of the bars a..b
SliceMaxHigh(d, a, b) ==
    CHOOSE m \in {d[k].high : k \in a..b} : \A k \in a..b : d[k].high <= m
SliceMinLow(d, a, b) ==
    CHOOSE m \in {d[k].low : k \in a..b} : \A k \in a..b : d[k].low >= m

\* for i in range(window//2, len(recent_df) - window//2): the local highs
\* and the local lows, in the order of the bars
RECURSIVE LocalHighs(_, _, _, _)
LocalHighs(d, h, i, last) ==
    IF i > last THEN <<>>
    ELSE (IF d[i].high = SliceMaxHigh(d, i - h, i + h) THEN <<d[i].high>> ELSE <<>>)
         \o LocalHighs(d, h, i + 1, last)

RECURSIVE LocalLows(_, _, _, _)
LocalLows(d, h, i, last) ==
    IF i > last THEN <<>>
    ELSE (IF d[i].low = SliceMinLow(d, i - h, i + h) THEN <<d[i].low>> ELSE <<>>)
         \o LocalLows(d, h, i + 1, last)

\* prices = pd.concat([最高, 最低, 收盘])
RECURSIVE Column(_, _, _)
Column(d, f, i) == IF i > Len(d) THEN <<>> ELSE <<d[i][f]>> \o Column(d, f, i + 1)

PricesOf(d) == Column(d, "high", 1) \o Column(d, "low", 1) \o Column(d, "close", 1)

SeqMin(xs) == CHOOSE m \in {xs[i] : i \in 1..Len(xs)} : \A i \in 1..Len(xs) : xs[i] >= m
SeqMax(xs) == CHOOSE m \in {xs[i] : i \in 1..Len(xs)} : \A i \in 1..Len(xs) : xs[i] <= m

\* np.histogram(prices, bins=bins): the outer edges (half a price unit to
\* each side when all prices are equal)
FirstEdge(xs) == IF SeqMin(xs) = SeqMax(xs) THEN SeqMin(xs) - PriceOne \div 2 ELSE SeqMin(xs)
LastEdge(xs) == IF SeqMin(xs) = SeqMax(xs) THEN SeqMax(xs) + PriceOne \div 2 ELSE SeqMax(xs)

\* the bin (1..bins) of the price x; the last bin holds its right edge
BinOf(x, lo, hi) ==
    IF x = hi THEN bins ELSE ((x - lo) * bins) \div (hi - lo) + 1

\* price_counts, bin by bin
RECURSIVE CountsFrom(_, _, _, _)
CountsFrom(xs, lo, hi, b) ==
    IF b > bins THEN <<>>
    ELSE <<Cardinality({i \in 1..Len(xs) : BinOf(xs[i], lo, hi) = b})>>
         \o CountsFrom(xs, lo, hi, b + 1)

Histogram(xs) == CountsFrom(xs, FirstEdge(xs), LastEdge(xs), 1)

\* (bin_edges[i] + bin_edges[i+1]) / 2 for the bin b = i + 1
BinMiddle(lo, hi, b) == lo + ((2 * b - 1) * (hi - lo)) \div (2 * bins)

\* the k-th smallest of the counts
KthSmallest(cs, k) ==
    CHOOSE v \in {cs[i] : i \in DOMAIN cs} :
        /\ Cardinality({i \in DOMAIN cs : cs[i] <= v}) >= k
        /\ Cardinality({i \in DOMAIN cs : cs[i] < v}) < k

\* ten times np.percentile(price_counts, 70): with 20 counts the percentile
\* lies 0.3 of the way from the 14th to the 15th smallest
DensityThreshold10(cs) == 7 * KthSmallest(cs, 14) + 3 * KthSmallest(cs, 15)

\* if count >= density_threshold: the middle of the bin is a dense area
RECURSIVE DenseFrom(_, _, _, _, _)
DenseFrom(lo, hi, cs, t10, b) ==
    IF b > bins THEN <<>>
    ELSE (IF 10 * cs[b] >= t10 THEN <<BinMiddle(lo, hi, b)>> ELSE <<>>)
         \o DenseFrom(lo, hi, cs, t10, b + 1)

\* dense_areas
DenseAreas(d) ==
    LET xs == PricesOf(d)
        lo == FirstEdge(xs)
        hi == LastEdge(xs)
        cs == CountsFrom(xs, lo, hi, 1)
    IN  DenseFrom(lo, hi, cs, DensityThreshold10(cs), 1)

\* abs(price - current_price) / current_price <= pct / 100
Within(p, cp, pct) == 100 * Abs(p - cp) <= pct * cp

Level(p, source, type) == [price |-> p, source |-> source, type |-> type]

RECURSIVE TagAll(_, _, _, _, _)
TagAll(ps, i, cp, source, type) ==
    IF i > Len(ps) THEN <<>>
    ELSE (IF Within(ps[i], cp, 15) THEN <<Level(ps[i], source, type)>> ELSE <<>>)
         \o TagAll(ps, i + 1, cp, source, type)

\* for ma_period in [5, 10, 20, 60]
MaLevel(row, key, cp) ==
    IF key \in DOMAIN row /\ ~isnan(row[key]) /\ Within(row[key], cp, 10)
    THEN <<Level(row[key], key, IF row[key] < cp THEN "support" ELSE "resistance")>>
    ELSE <<>>

\* the three Bollinger bands
BandLevels(row, cp) ==
    IF ~isnan(Get(row, "BB_Upper", NaN)) /\ ~isnan(Get(row, "BB_Lower", NaN))
    THEN (IF Within(row.BB_Upper, cp, 10)
          THEN <<Level(row.BB_Upper, "BB upper", "resistance")>> ELSE <<>>)
         \o (IF Within(row.BB_Lower, cp, 10)
             THEN <<Level(row.BB_Lower, "BB lower", "support")>> ELSE <<>>)
         \o (IF ~isnan(Get(row, "BB_Middle", NaN)) /\ Within(Get(row, "BB_Middle", NaN), cp, 10)
             THEN <<Level(row.BB_Middle, "BB middle",
                          IF row.BB_Middle < cp THEN "support" ELSE "resistance")>>
             ELSE <<>>)
    ELSE <<>>

\* all_levels before the sort, in the order the code appends them
AllLevels(d, w) ==
    LET r == recent_df(d)
        n == Len(r)
        h == w \div 2
        row == r[n]
        cp == row.close
    IN  TagAll(LocalHighs(r, h, h + 1, n - h), 1, cp, "local high", "resistance")
        \o TagAll(LocalLows(r, h, h + 1, n - h), 1, cp, "local low", "support")
        \o TagAll(DenseAreas(r), 1, cp, "dense area", "support/resistance")
        \o MaLevel(row, "MA5", cp) \o MaLevel(row, "MA10", cp)
        \o MaLevel(row, "MA20", cp) \o MaLevel(row, "MA60", cp)
        \o BandLevels(row, cp)

\* all_levels.sort(key=lambda x: x[0]): a stable sort by price
RECURSIVE InsertByPrice(_, _)
InsertByPrice(sorted, x) ==
    IF sorted = <<>> THEN <<x>>
    ELSE IF sorted[Len(sorted)].price <= x.price THEN Append(sorted, x)
    ELSE Append(InsertByPrice(SubSeq(sorted, 1, Len(sorted) - 1), x),
                sorted[Len(sorted)])

RECURSIVE SortByPrice(_, _)
SortByPrice(ls, k) ==
    IF k = 0 THEN <<>> ELSE InsertByPrice(SortByPrice(ls, k - 1), ls[k])

RECURSIVE SumPrices(_, _)
SumPrices(g, k) == IF k = 0 THEN 0 ELSE g[k].price + SumPrices(g, k - 1)

\* (avg_price, ' + '.join(sources), '/'.join(types)) of a group
MakeGroup(g) ==
    [price |-> <<SumPrices(g, Len(g)), Len(g)>>,
     sources |-> {g[i].source : i \in 1..Len(g)},
     types |-> {g[i].type : i \in 1..Len(g)}]

\* a level joins the group while it is within price_tolerance = 1% of the
\* current price of the group's first level
RECURSIVE GroupFrom(_, _, _, _)
GroupFrom(ls, i, current_group, cp) ==
    IF i > Len(ls) THEN <<MakeGroup(current_group)>>
    ELSE IF 100 * Abs(ls[i].price - current_group[1].price) <= cp
    THEN GroupFrom(ls, i + 1, Append(current_group, ls[i]), cp)
    ELSE <<MakeGroup(current_group)>> \o GroupFrom(ls, i + 1, <<ls[i]>>, cp)

\* grouped_levels
GroupedLevels(ls, cp) ==
    IF ls = <<>> THEN <<>>
    ELSE LET sorted == SortByPrice(ls, Len(ls))
         IN  GroupFrom(sorted, 2, <<sorted[1]>>, cp)

\* ratio comparisons: q < v, q > v, q < r for ratios with positive denominators
RatioBelow(q, v) == q[1] < v * q[2]
RatioAbove(q, v) == q[1] > v * q[2]
RatioLess(q, r) == q[1] * r[2] < r[1] * q[2]

\* '支撑' in type_ and '阻力' in type_ on the joined types of a group
\* variant: only the plain support tag counts
HasSupportTypeStrict(types) == "support" \in types
HasSupportType(types) == types \cap {"support", "support/resistance"} # {}
HasResistanceType(types) == types \cap {"resistance", "support/resistance"} # {}

\* variant: the side of the price is not asked
IsSupportAnySide(g, cp) == HasSupportType(g.types)
\* if '支撑' in type_ and price < current_price
IsSupport(g, cp) == HasSupportType(g.types) /\ RatioBelow(g.price, cp)
\* if '阻力' in type_ and price > current_price
IsResistance(g, cp) == HasResistanceType(g.types) /\ RatioAbove(g.price, cp)

RECURSIVE SelectSupports(_, _, _)
SelectSupports(gs, i, cp) ==
    IF i > Len(gs) THEN <<>>
    ELSE (IF IsSupport(gs[i], cp)
          THEN <<[price |-> gs[i].price, source |-> gs[i].sources]>> ELSE <<>>)
         \o SelectSupports(gs, i + 1, cp)

RECURSIVE SelectResistances(_, _, _)
SelectResistances(gs, i, cp) ==
    IF i > Len(gs) THEN <<>>
    ELSE (IF IsResistance(gs[i], cp)
          THEN <<[price |-> gs[i].price, source |-> gs[i].sources]>> ELSE <<>>)
         \o SelectResistances(gs, i + 1, cp)

\* resistances.sort(key=lambda x: x[0]): stable, ascending
RECURSIVE InsertAscending(_, _)
InsertAscending(sorted, x) ==
    IF sorted = <<>> THEN <<x>>
    ELSE IF ~RatioLess(x.price, sorted[Len(sorted)].price) THEN Append(sorted, x)
    ELSE Append(InsertAscending(SubSeq(sorted, 1, Len(sorted) - 1), x),
                sorted[Len(sorted)])

RECURSIVE SortAscending(_, _)
SortAscending(ls, k) ==
    IF k = 0 THEN <<>> ELSE InsertAscending(SortAscending(ls, k - 1), ls[k])

\* supports.sort(key=lambda x: x[0], reverse=True): stable, descending
RECURSIVE InsertDescending(_, _)
InsertDescending(sorted, x) ==
    IF sorted = <<>> THEN <<x>>
    ELSE IF ~RatioLess(sorted[Len(sorted)].price, x.price) THEN Append(sorted, x)
    ELSE Append(InsertDescending(SubSeq(sorted, 1, Len(sorted) - 1), x),
                sorted[Len(sorted)])

RECURSIVE SortDescending(_, _)
SortDescending(ls, k) ==
    IF k = 0 THEN <<>> ELSE InsertDescending(SortDescending(ls, k - 1), ls[k])

\* variant: the last five of the list
FirstFiveFromEnd(ls) == SubSeq(ls, Max2(1, Len(ls) - 4), Len(ls))
\* ls[:5]
FirstFive(ls) == SubSeq(ls, 1, Min2(5, Len(ls)))

\* if df is None or df.empty or len(df) < window
TooShort(none, d, w) == none \/ Len(d) = 0 \/ Len(d) < w

\* the returned dict, from all_levels as collected
ResultOf(none, d, w, ls) ==
    IF TooShort(none, d, w) THEN EmptyDict
    ELSE LET cp == d[Len(d)].close
             grouped == GroupedLevels(ls, cp)
         IN  [kind |-> "dict",
              keys |-> {"supports", "resistances", "current_price", "all_levels"},
              supports |->
                  FirstFive(LET s == SelectSupports(grouped, 1, cp)
                            IN  SortDescending(s, Len(s))),
              resistances |->
                  FirstFive(LET s == SelectResistances(grouped, 1, cp)
                            IN  SortAscending(s, Len(s))),
              current_price |-> cp,
              all_levels |-> grouped]

\* all_levels as collected (nothing on the early return)
Candidates(none, d, w) == IF TooShort(none, d, w) THEN <<>> ELSE AllLevels(d, w)

calculate_support_resistance(none, d, w) == ResultOf(none, d, w, Candidates(none, d, w))

\* the truth value of a None or a dict, and of dict.get(key) on a list value
Truthy(v) == v.kind = "dict" /\ v.keys # {}
GetList(v, key) == IF key \in v.keys THEN v[key] ELSE <<>>

\* create_enhanced_etf_chart: the number of support and resistance lines
\* drawn (at most three each), nothing on a missing or empty frame
ChartLines(none, d, sr) ==
    IF none \/ Len(d) = 0 THEN [supports |-> 0, resistances |-> 0]
    ELSE [supports |->
              IF Truthy(sr) /\ GetList(sr, "supports") # <<>>
              THEN Min2(3, Len(sr.supports)) ELSE 0,
          resistances |->
              IF Truthy(sr) /\ GetList(sr, "resistances") # <<>>
              THEN Min2(3, Len(sr.resistances)) ELSE 0]

\* if support_resistance and support_resistance.get('supports')
\*    or support_resistance.get('resistances'):
\* the second .get is reached when the first operand is false, and fails on None
SectionError(sr) ==
    IF Truthy(sr) /\ GetList(sr, "supports") # <<>> THEN ""
    ELSE IF sr.kind = "None" THEN "AttributeError" ELSE ""

SectionShowsLevels(sr) ==
    \/ Truthy(sr) /\ GetList(sr, "supports") # <<>>
    \/ sr.kind = "dict" /\ GetList(sr, "resistances") # <<>>

\* the level analysis section: the lists, then the three suggestions
LevelSectionView(sr) ==
    IF SectionError(sr) # "" THEN [NoSection EXCEPT !.shown = "error"]
    ELSE IF ~SectionShowsLevels(sr)
    THEN [NoSection EXCEPT !.shown = "insufficient data"]
    ELSE LET cp == sr.current_price
             s == GetList(sr, "supports")
             r == GetList(sr, "resistances")
         IN  [shown |-> "levels",
              \* support_distance <= 3
              near_support |->
                  s # <<>> /\ 100 * (cp * s[1].price[2] - s[1].price[1])
                                <= 3 * cp * s[1].price[2],
              \* resistance_distance <= 3
              near_resistance |->
                  r # <<>> /\ 100 * (r[1].price[1] - cp * r[1].price[2])
                                <= 3 * cp * r[1].price[2],
              \* range_pct >= 5
              range_trade |->
                  s # <<>> /\ r # <<>> /\
                  100 * (r[1].price[1] * s[1].price[2] - s[1].price[1] * r[1].price[2])
                    >= 5 * cp * r[1].price[2] * s[1].price[2]]

\* the frame handed to calculate_support_resistance(df, window)
LevelsLoad(a, w) ==
    /\ pc = "load"
    /\ df' = a.rows
    /\ df_none' = a.missing
    /\ window' = w
    /\ pc' = "levels"
    /\ UNCHANGED <<all_levels, support_resistance, chart_lines, section, page_error>>
    /\ UNCHANGED <<scoreVars, turtleVars, frameVars, tailVars>>

\* support_resistance = calculate_support_resistance(df)
CalculateSupportResistance ==
    /\ pc = "levels"
    /\ all_levels' = Candidates(df_none, df, window)
    /\ support_resistance' = ResultOf(df_none, df, window, all_levels')
    /\ pc' = "chart"
    /\ UNCHANGED <<df, df_none, window, chart_lines, section, page_error>>
    /\ UNCHANGED <<scoreVars, turtleVars, frameVars, tailVars>>

\* main_fig = create_enhanced_etf_chart(df, title, support_resistance)
ChartOverlay ==
    /\ pc = "chart"
    /\ chart_lines' = ChartLines(df_none, df, support_resistance)
    /\ pc' = "section"
    /\ UNCHANGED <<df, df_none, window, all_levels, support_resistance, section,
                   page_error>>
    /\ UNCHANGED <<scoreVars, turtleVars, frameVars, tailVars>>

\* the section "支撑压力点分析"
LevelSection ==
    /\ pc = "section"
    /\ section' = LevelSectionView(support_resistance)
    /\ page_error' = SectionError(support_resistance)
    /\ pc' = "shown"
    /\ UNCHANGED <<df, df_none, window, all_levels, support_resistance, chart_lines>>
    /\ UNCHANGED <<scoreVars, turtleVars, frameVars, tailVars>>

\* level inputs: a missing frame, every frame of 0..MaxLevelBars bars of four
\* kinds around LevelBase (in BinGrid ticks), and two frames of five bars
\* whose prices fill enough bins for a density threshold above 0; the last
\* row carries one of the indicator profiles: no indicator columns, columns
\* without a value, or values near the close
MaxLevelBars == 4
LevelBase == 20
LevelBar(k) ==
    [high |-> BinGrid * (LevelBase + k[1]), low |-> BinGrid * (LevelBase + k[2]),
     close |-> BinGrid * (LevelBase + k[3])]
LevelBars == {LevelBar(k) : k \in {<<0, 0, 0>>, <<1, -1, 0>>, <<2, 0, 1>>, <<0, -2, -1>>}}

Indicators(m5, m10, m20, m60, up, lo, mid) ==
    [MA5 |-> m5, MA10 |-> m10, MA20 |-> m20, MA60 |-> m60,
     BB_Upper |-> up, BB_Lower |-> lo, BB_Middle |-> mid]

IndicatorProfiles(cp) ==
    {Indicators(NaN, NaN, NaN, NaN, NaN, NaN, NaN),
     Indicators(cp - 4, cp - 16, cp - 24, cp + 100, cp + 24, cp - 24, cp),
     Indicators(cp + 4, cp, NaN, cp - 60, NaN, cp - 50, cp - 5),
     Indicators(NaN, NaN, NaN, NaN, cp - 40, cp - 120, cp - 80)}

WithColumns(row, ind) ==
    [k \in DOMAIN row \cup DOMAIN ind |-> IF k \in DOMAIN ind THEN ind[k] ELSE row[k]]

\* the last row of a frame with and without indicator columns
LastRows(b) == {b} \cup {WithColumns(b, ind) : ind \in IndicatorProfiles(b.close)}

SampleFrames ==
    {<<LevelBar(<<3, 2, 2>>), LevelBar(<<-1, -3, -2>>), LevelBar(<<0, -3, -2>>),
       LevelBar(<<-1, -2, -2>>), LevelBar(<<3, 1, 1>>)>>,
     <<LevelBar(<<-2, -3, -2>>), LevelBar(<<0, -1, -1>>), LevelBar(<<-1, -3, -1>>),
       LevelBar(<<3, 1, 2>>), LevelBar(<<3, 1, 2>>)>>}

LevelFrames ==
    {<<>>} \cup
    UNION {{[i \in 1..n |-> IF i = n THEN last ELSE s[i]] :
               s \in [1..n -> LevelBars],
               last \in UNION {LastRows(b) : b \in LevelBars}} :
           n \in 1..MaxLevelBars} \cup
    UNION {{[f EXCEPT ![Len(f)] = last] : last \in LastRows(f[Len(f)])} :
           f \in SampleFrames}

LevelInputs ==
    {[missing |-> TRUE, rows |-> <<>>]} \cup
    {[missing |-> FALSE, rows |-> f] : f \in LevelFrames}

LevelWindows == {2, 4}

(***************************************************************************)
(* Frames as objects: calculate_technical_indicators of                    *)
(* utils/etf_analysis_shared.py and of pages/etf技术分析.py, and             *)
(* turtle_strategy_signals, on the frame object they are handed. A frame is *)
(* its column names and its rows; of the indicator columns the rows carry   *)
(* OBV here (the other values are those of RowAt).                          *)
(***************************************************************************)
\* price_change = df["收盘"].diff().fillna(0): 0 on the first bar
price_change(d, i) == IF i = 1 THEN 0 ELSE d[i].close - d[i - 1].close

\* variant: a flat close counts as a rise
direction_flat_up(d, i) == IF price_change(d, i) >= 0 THEN 1 ELSE -1
\* np.where(price_change > 0, 1, np.where(price_change < 0, -1, 0))
direction(d, i) ==
    IF price_change(d, i) > 0 THEN 1
    ELSE IF price_change(d, i) < 0 THEN -1
    ELSE 0

\* (direction * df["成交量"]).cumsum()
RECURSIVE OBV(_, _)
OBV(d, i) ==
    IF i = 0 THEN 0 ELSE OBV(d, i - 1) + direction(d, i) * d[i].volume

\* the columns the functions assign
SharedColumns ==
    {"MA5", "MA10", "MA20", "MA60", "MACD", "MACD_Signal", "MACD_Histogram",
     "RSI", "K", "D", "J", "OBV", "OBV_MA10", "pct_change", "BB_Middle",
     "BB_Upper", "BB_Lower", "Volume_MA5", "Volume_MA10"}
PageColumns ==
    {"MA5", "MA10", "MA20", "MA60", "MACD", "MACD_Signal", "MACD_Histogram",
     "RSI", "K", "D", "J", "BB_Middle", "BB_Upper", "BB_Lower", "Volume_MA5",
     "Volume_MA10", "OBV", "OBV_MA10"}
TurtleColumns ==
    {"ATR", "entry_high", "entry_low", "exit_high", "exit_low", "long_entry",
     "long_exit", "short_entry", "short_exit"}

\* the frame with the indicator columns assigned
WithIndicators(f, columns) ==
    [columns |-> f.columns \cup columns,
     rows |-> [i \in 1..Len(f.rows) |->
                  [close |-> f.rows[i].close, volume |-> f.rows[i].volume,
                   OBV |-> OBV(f.rows, i)]]]

\* the frame with the turtle columns assigned
WithTurtleSignals(f, P) ==
    [columns |-> f.columns \cup TurtleColumns,
     rows |-> turtle_strategy_signals(f.rows, P)]

\* the caller builds a frame and is about to hand it to a function
FrameLoad(f) ==
    /\ pc = "load"
    /\ frames' = <<f>>
    /\ arg' = 1
    /\ before' = f
    /\ pc' = "call"
    /\ UNCHANGED <<ret, callee>>
    /\ UNCHANGED <<pageVars, turtleVars, levelVars, tailVars>>

\* utils/etf_analysis_shared.py: an empty frame is returned as it is, else
\* df = df.copy() and the columns are assigned on the copy
SharedIndicators ==
    /\ pc = "call"
    /\ "volume" \in frames[arg].columns
    /\ IF frames[arg].rows = <<>>
       THEN /\ frames' = frames
            /\ ret' = arg
       ELSE /\ frames' = Append(frames, WithIndicators(frames[arg], SharedColumns))
            /\ ret' = Len(frames) + 1
    /\ callee' = "shared"
    /\ pc' = "returned"
    /\ UNCHANGED <<arg, before>>
    /\ UNCHANGED <<pageVars, turtleVars, levelVars, tailVars>>

\* pages/etf技术分析.py: an empty frame is returned as it is, else the columns
\* are assigned on df itself and df is returned
PageIndicators ==
    /\ pc = "call"
    /\ "volume" \in frames[arg].columns
    /\ IF frames[arg].rows = <<>>
       THEN frames' = frames
       ELSE frames' = [frames EXCEPT ![arg] = WithIndicators(@, PageColumns)]
    /\ ret' = arg
    /\ callee' = "page"
    /\ pc' = "returned"
    /\ UNCHANGED <<arg, before>>
    /\ UNCHANGED <<pageVars, turtleVars, levelVars, tailVars>>

\* pages/05_海龟交易法则.py: the columns are assigned on data itself and data
\* is returned
TurtleSignalsCall(P) ==
    /\ pc = "call"
    /\ "high" \in frames[arg].columns
    /\ frames' = [frames EXCEPT ![arg] = WithTurtleSignals(@, P)]
    /\ ret' = arg
    /\ callee' = "turtle"
    /\ pc' = "returned"
    /\ UNCHANGED <<arg, before>>
    /\ UNCHANGED <<pageVars, turtleVars, levelVars, tailVars>>

\* frame inputs: frames of 0..MaxFrameBars bars with close and volume for
\* the indicator functions, with high, low and close for the turtle signals
MaxFrameBars == 4
MaxFramePrice == 2
MaxFrameVolume == 2
IndicatorFrameBars ==
    {[close |-> c, volume |-> v] : c \in 1..MaxFramePrice, v \in 1..MaxFrameVolume}
IndicatorFrames ==
    {[columns |-> {"close", "volume"}, rows |-> r] :
        r \in UNION {[1..n -> IndicatorFrameBars] : n \in 0..MaxFrameBars}}
TurtleFrameBars ==
    {[high |-> c + 1, low |-> c - 1, close |-> c] : c \in 1..MaxFramePrice}
TurtleFrames ==
    {[columns |-> {"high", "low", "close"}, rows |-> r] :
        r \in UNION {[1..n -> TurtleFrameBars] : n \in 0..MaxFrameBars}}
FrameInputs == IndicatorFrames \cup TurtleFrames

(***************************************************************************)
(* pages/etf技术分析.py, display_comprehensive_analysis: the four quadrants, *)
(* the resonance score, the conclusion and the option advice                *)
(***************************************************************************)
\* "偏多" if points >= 2 else ("中性" if points == 1 else "偏空")
StatusOf(points) ==
    IF points >= 2 THEN "bullish" ELSE IF points = 1 THEN "neutral" ELSE "bearish"

Point(cond) == IF cond THEN 1 ELSE 0

\* MA5 > MA10 > MA20, MACD > 0 (the golden cross adds a message only)
trend_points(l, p) ==
    Point(l.MA5 > l.MA10 /\ l.MA10 > l.MA20) + Point(l.MACD > 0)

\* RSI >= 50, K crossing above D, RSI < 30
osc_points(l, p) ==
    Point(l.RSI >= 50) + Point(l.K > l.D /\ p.K <= p.D) + Point(l.RSI < 30)

\* vol_ratio = volume / max(Volume_MA5, 1) > 1.2, OBV > OBV_MA10
energy_points(l, p) ==
    Point(10 * l.volume > 12 * Max2(l.Volume_MA5, 1)) + Point(l.OBV > l.OBV_MA10)

\* close >= BB_Middle; (close - BB_Lower) / max(BB_Upper - BB_Lower, 1e-9) < 0.2:
\* on whole prices a width of 0 leaves the quotient below 0.2 only for a
\* close at or under the lower band
space_points(l, p) ==
    Point(l.close >= l.BB_Middle) +
    Point(IF l.BB_Upper - l.BB_Lower > 0
          THEN 5 * (l.close - l.BB_Lower) < l.BB_Upper - l.BB_Lower
          ELSE l.close - l.BB_Lower <= 0)

Quadrants(l, p) ==
    [trend |-> StatusOf(trend_points(l, p)), osc |-> StatusOf(osc_points(l, p)),
     energy |-> StatusOf(energy_points(l, p)), space |-> StatusOf(space_points(l, p))]

\* sum(s == status for s in [trend_status, osc_status, energy_status, space_status])
CountStatus(q, status) ==
    Point(q.trend = status) + Point(q.osc = status) +
    Point(q.energy = status) + Point(q.space = status)

\* resonance_conclusion, chosen by bull_count
ResonanceConclusion(b) ==
    IF b >= 3 THEN "strong" ELSE IF b = 2 THEN "moderate"
    ELSE IF b = 1 THEN "weak" ELSE "none"

\* map_strategy_by_resonance: the row of the strategy matrix
map_strategy_by_resonance(score_0_8) ==
    IF score_0_8 >= 6 THEN "6-8 strong: Long Call"
    ELSE IF score_0_8 >= 4 THEN "4-5 moderate: Bull Call Spread"
    ELSE IF score_0_8 >= 2 THEN "2-3 weak: Sell Put"
    ELSE "0-1 none: wait or neutral strategy"

\* latest = df.iloc[-1], prev = df.iloc[-2]
ResonanceLoad(l, p) ==
    /\ pc = "load"
    /\ res_latest' = l
    /\ res_prev' = p
    /\ pc' = "resonance"
    /\ UNCHANGED <<quadrants, bull_count, neutral_count, resonance_score,
                   resonance_conclusion, current_advice>>
    /\ UNCHANGED <<coreVars, fetchVars, proxyVars, riskVars>>

\* the four statuses, bull_count, neutral_count and resonance_score
ResonanceAnalysis ==
    /\ pc = "resonance"
    /\ quadrants' = Quadrants(res_latest, res_prev)
    /\ bull_count' = CountStatus(quadrants', "bullish")
    /\ neutral_count' = CountStatus(quadrants', "neutral")
    /\ resonance_score' = bull_count' * 2 + neutral_count'
    /\ pc' = "conclusion"
    /\ UNCHANGED <<res_latest, res_prev, resonance_conclusion, current_advice>>
    /\ UNCHANGED <<coreVars, fetchVars, proxyVars, riskVars>>

Conclude ==
    /\ pc = "conclusion"
    /\ resonance_conclusion' = ResonanceConclusion(bull_count)
    /\ pc' = "advice"
    /\ UNCHANGED <<res_latest, res_prev, quadrants, bull_count, neutral_count,
                   resonance_score, current_advice>>
    /\ UNCHANGED <<coreVars, fetchVars, proxyVars, riskVars>>

\* current_advice = map_strategy_by_resonance(int(resonance_score))
Advise ==
    /\ pc = "advice"
    /\ current_advice' = map_strategy_by_resonance(resonance_score)
    /\ pc' = "advised"
    /\ UNCHANGED <<res_latest, res_prev, quadrants, bull_count, neutral_count,
                   resonance_score, resonance_conclusion>>
    /\ UNCHANGED <<coreVars, fetchVars, proxyVars, riskVars>>

\* resonance inputs: the latest row, and the K and D of the row before it
ResonanceRows ==
    {[MA5 |-> m5, MA10 |-> 2, MA20 |-> 1, MACD |-> macd, RSI |-> rsi,
      K |-> k, D |-> 2, volume |-> v, Volume_MA5 |-> 7, OBV |-> obv,
      OBV_MA10 |-> 1, close |-> b[1], BB_Lower |-> b[2], BB_Middle |-> b[3],
      BB_Upper |-> b[4]] :
        m5 \in {1, 3}, macd \in {-1, 1}, rsi \in {20, 40, 60}, k \in {1, 3},
        v \in {7, 12}, obv \in {0, 2},
        b \in {<<10, 10, 15, 20>>, <<12, 10, 15, 20>>, <<15, 10, 15, 20>>,
               <<15, 15, 15, 15>>}}
ResonancePrevRows == {[K |-> k, D |-> 2] : k \in {1, 3}}

(***************************************************************************)
(* utils/option_utils.py: _save_cache, _load_cache, _fetch_with_retry.      *)
(* A table is the sequence of the cells of its one column; pd.DataFrame()   *)
(* is <<>>. A cell is a string or an integer with its text.                 *)
(***************************************************************************)
StrCell(t) == [kind |-> "str", text |-> t]
IntCell(t) == [kind |-> "int", text |-> t]

\* texts read_csv takes for integers, and the integer's own text
NumericTexts == {"5", "05"}
Canonical(t) == IF t = "05" THEN "5" ELSE t

\* df.to_csv(path, index=False): the text of every cell
to_csv(t) == CsvFile([i \in 1..Len(t) |-> t[i].text])

\* pd.read_csv(p): a column whose lines are all numbers becomes integers,
\* else strings; a file of zero bytes raises EmptyDataError
read_csv(f) ==
    IF f.kind = "zero bytes" THEN [raised |-> TRUE, table |-> <<>>]
    ELSE [raised |-> FALSE,
          table |-> IF \A i \in 1..Len(f.lines) : f.lines[i] \in NumericTexts
                    THEN [i \in 1..Len(f.lines) |-> IntCell(Canonical(f.lines[i]))]
                    ELSE [i \in 1..Len(f.lines) |-> StrCell(f.lines[i])]]

\* what a write leaves behind: the whole file; nothing new when the file
\* cannot be opened; zero bytes or the header and the first k lines when
\* the write breaks off
WriteResult(c, t, w) ==
    IF w.kind = "ok" THEN to_csv(t)
    ELSE IF w.kind = "unopened" THEN c
    ELSE IF w.keep < 0 THEN EmptyFile
    ELSE CsvFile(SubSeq(to_csv(t).lines, 1, Min2(w.keep, Len(t) - 1)))

\* _save_cache: writes a table that is not empty; an exception is dropped
save_cache(c, t, w) == IF t # <<>> THEN WriteResult(c, t, w) ELSE c

\* variant: the exception of read_csv is handed on
load_cache_raising(c) ==
    IF c.kind = "missing" THEN [raised |-> FALSE, table |-> <<>>] ELSE read_csv(c)
\* _load_cache: the table of the file, pd.DataFrame() when the file is
\* missing or cannot be read
load_cache(c) ==
    IF c.kind = "missing" THEN [raised |-> FALSE, table |-> <<>>]
    ELSE IF read_csv(c).raised THEN [raised |-> FALSE, table |-> <<>>]
    ELSE read_csv(c)

\* variant: any table ends the attempts
IsUsableEmptyToo(o) == o.kind = "table"
\* isinstance(df, pd.DataFrame) and not df.empty
IsUsable(o) == o.kind = "table" /\ o.table # <<>>

\* variant: an attempt without a table removes the file
CacheAfterAttemptClearing(c, o, w) ==
    IF IsUsable(o) THEN save_cache(c, o.table, w) ELSE NoFile
\* the cache file after one attempt: written only on a table that is not empty
CacheAfterAttempt(c, o, w) ==
    IF IsUsable(o) THEN save_cache(c, o.table, w) ELSE c

\* bounds: calls in a row, the retries argument, rows of a table
MaxCalls == 2
MaxRetries == 3
MaxRows == 2

\* _fetch_with_retry(fetch_fn, cache_name, retries): last_err = None and the
\* loop over range(1, retries + 1)
FetchCall(n) ==
    /\ pc \in {"load", "fetched"}
    /\ ncalls < MaxCalls
    /\ ncalls' = ncalls + 1
    /\ retries' = n
    /\ attempt' = 1
    /\ fetch_log' = <<>>
    /\ fetched' = NoReturn
    /\ last_err' = ""
    /\ notice' = ""
    /\ cache_at_call' = cache
    /\ pc' = IF n >= 1 THEN "attempt" ELSE "fallback"
    /\ UNCHANGED <<cache, escaped, last_table>>
    /\ UNCHANGED <<coreVars, resonanceVars, proxyVars, riskVars>>

\* one pass of the loop: fetch_fn() gives o, a write of the cache ends as w
Attempt(o, w) ==
    /\ pc = "attempt"
    /\ fetch_log' = Append(fetch_log, o)
    /\ cache' = CacheAfterAttempt(cache, o, w)
    /\ IF IsUsable(o)
       THEN /\ fetched' = Return(o.table)
            /\ last_table' = o.table
            /\ pc' = "fetched"
            /\ UNCHANGED <<attempt, last_err>>
       ELSE /\ last_err' = IF o.kind = "raise" THEN o.err ELSE last_err
            /\ attempt' = attempt + 1
            /\ pc' = IF attempt < retries THEN "attempt" ELSE "fallback"
            /\ UNCHANGED <<fetched, last_table>>
    /\ UNCHANGED <<retries, notice, escaped, ncalls, cache_at_call>>
    /\ UNCHANGED <<coreVars, resonanceVars, proxyVars, riskVars>>

\* after the loop: the cached table if it is not empty, else pd.DataFrame()
Fallback ==
    /\ pc = "fallback"
    /\ LET cached == load_cache(cache)
       IN  IF cached.raised
           THEN /\ escaped' = TRUE
                /\ UNCHANGED <<fetched, notice>>
           ELSE /\ escaped' = escaped
                /\ IF cached.table # <<>>
                   THEN /\ notice' = "info: cache in use"
                        /\ fetched' = Return(cached.table)
                   ELSE /\ notice' = IF last_err # "" THEN "warning: " \o last_err ELSE ""
                        /\ fetched' = Return(<<>>)
    /\ pc' = "fetched"
    /\ UNCHANGED <<cache, retries, attempt, fetch_log, last_err, ncalls,
                   last_table, cache_at_call>>
    /\ UNCHANGED <<coreVars, resonanceVars, proxyVars, riskVars>>

\* fetch inputs: fetch_fn raises, returns None, or returns a table of
\* 0..MaxRows cells; a write of the cache file succeeds or fails
Cells == {StrCell("05"), StrCell("x"), IntCell("5")}
Tables == UNION {[1..n -> Cells] : n \in 0..MaxRows}
FetchOutcomes ==
    {[kind |-> "raise", err |-> e, table |-> <<>>] : e \in {"TimeoutError", "ValueError"}}
    \cup {[kind |-> "none", err |-> "", table |-> <<>>]}
    \cup {[kind |-> "table", err |-> "", table |-> t] : t \in Tables}
WriteOutcomes ==
    {[kind |-> "ok", keep |-> 0], [kind |-> "unopened", keep |-> 0]}
    \cup {[kind |-> "broken off", keep |-> k] : k \in -1..(MaxRows - 1)}

(***************************************************************************)
(* utils/reverse_proxy.py: ensure_proxy_running, one step per statement, in *)
(* threads that share _server_thread and the port. 0 is None / no thread.   *)
(***************************************************************************)
\* f"http://{host}:{port}" with the default host and port
ProxyUrl == "http://127.0.0.1:8900"

\* _is_port_in_use(port): a connect to the port succeeds
is_port_in_use == listening # 0

\* return f"http://{host}:{port}"
ReturnUrl(c) ==
    /\ at' = [at EXCEPT ![c] = "idle"]
    /\ returned' = returned \cup {ProxyUrl}

ProxyCall(c) ==
    /\ at[c] = "idle"
    /\ calls_made[c] < MaxProxyCalls
    /\ calls_made' = [calls_made EXCEPT ![c] = @ + 1]
    /\ at' = [at EXCEPT ![c] = "check thread"]
    /\ UNCHANGED <<server_thread, started, alive, listening, returned>>
    /\ UNCHANGED <<pc, coreVars, resonanceVars, fetchVars, riskVars>>

\* if _server_thread is not None and _server_thread.is_alive(): return
CheckThread(c) ==
    /\ at[c] = "check thread"
    /\ IF server_thread # 0 /\ server_thread \in alive
       THEN ReturnUrl(c)
       ELSE at' = [at EXCEPT ![c] = "check port"] /\ UNCHANGED returned
    /\ UNCHANGED <<calls_made, server_thread, started, alive, listening>>
    /\ UNCHANGED <<pc, coreVars, resonanceVars, fetchVars, riskVars>>

\* if _is_port_in_use(port): return
CheckPort(c) ==
    /\ at[c] = "check port"
    /\ IF is_port_in_use
       THEN ReturnUrl(c)
       ELSE at' = [at EXCEPT ![c] = "start"] /\ UNCHANGED returned
    /\ UNCHANGED <<calls_made, server_thread, started, alive, listening>>
    /\ UNCHANGED <<pc, coreVars, resonanceVars, fetchVars, riskVars>>

\* _app = _build_app(); _server_thread = threading.Thread(...); start(); return
StartServer(c) ==
    /\ at[c] = "start"
    /\ started' = started + 1
    /\ server_thread' = started + 1
    /\ alive' = alive \cup {started + 1}
    /\ ReturnUrl(c)
    /\ UNCHANGED <<calls_made, listening>>
    /\ UNCHANGED <<pc, coreVars, resonanceVars, fetchVars, riskVars>>

\* _run in server thread s: uvicorn.run binds the port and serves, or ends
\* when the port is taken
ServerRun(s) ==
    /\ s \in alive
    /\ listening # s
    /\ IF listening = 0
       THEN listening' = s /\ UNCHANGED alive
       ELSE alive' = alive \ {s} /\ UNCHANGED listening
    /\ UNCHANGED <<at, calls_made, server_thread, started, returned>>
    /\ UNCHANGED <<pc, coreVars, resonanceVars, fetchVars, riskVars>>

(***************************************************************************)
(* pages/期权风险分析.py: analyze_option_characteristics. Delta and Theta in *)
(* hundredths, the leverage ratio and Vega in units; a value that           *)
(* pd.to_numeric cannot read is NaN; a column the frame lacks reads as the  *)
(* default of row.get.                                                      *)
(***************************************************************************)
\* abs(x), NaN for NaN
AbsValue(x) == IF isnan(x) THEN NaN ELSE Abs(x)

delta_tag(delta) ==
    IF isnan(delta) THEN <<>>
    ELSE IF GT(AbsValue(delta), 70) THEN <<"high Delta">>
    ELSE IF GT(AbsValue(delta), 50) THEN <<"medium Delta">>
    ELSE <<"low Delta">>

leverage_tag(leverage) ==
    IF isnan(leverage) THEN <<>>
    ELSE IF GT(leverage, 15) THEN <<"very high leverage">>
    ELSE IF GT(leverage, 10) THEN <<"high leverage">>
    ELSE IF GT(leverage, 5) THEN <<"medium leverage">>
    ELSE <<"low leverage">>

\* the Vega values of the frame that are numbers, and ten times their
\* quantile q10/10 (linear interpolation; frames of one or two rows)
VegaValues(d) == {d[i].Vega : i \in {k \in 1..Len(d) : ~isnan(d[k].Vega)}}
SetMin(S) == CHOOSE x \in S : \A y \in S : x <= y
SetMax(S) == CHOOSE x \in S : \A y \in S : x >= y
VegaQuantile10(d, q10) ==
    IF Len(d) = 2 /\ ~isnan(d[1].Vega) /\ ~isnan(d[2].Vega)
    THEN 10 * SetMin(VegaValues(d)) + q10 * (SetMax(VegaValues(d)) - SetMin(VegaValues(d)))
    ELSE 10 * SetMin(VegaValues(d))

vega_tag(d, vega) ==
    IF isnan(vega) THEN <<>>
    ELSE IF 10 * vega > VegaQuantile10(d, 8) THEN <<"high Vega">>
    ELSE IF 10 * vega > VegaQuantile10(d, 5) THEN <<"medium Vega">>
    ELSE <<"low Vega">>

theta_tag(theta) ==
    IF isnan(theta) THEN <<>>
    ELSE IF GT(AbsValue(theta), 50) THEN <<"high time decay">>
    ELSE IF GT(AbsValue(theta), 20) THEN <<"medium time decay">>
    ELSE <<"low time decay">>

\* '购' in option_name, '沽' in option_name
type_tag(option_name) ==
    IF option_name = "call" THEN <<"call">>
    ELSE IF option_name = "put" THEN <<"put">>
    ELSE <<>>

\* variant: without the leverage > 15 alternative
risk_level_no_top(delta, leverage) ==
    IF GT(AbsValue(delta), 70) /\ GT(leverage, 10) THEN "high risk"
    ELSE IF (GT(AbsValue(delta), 50) /\ GT(leverage, 5)) \/ GT(leverage, 10)
    THEN "medium risk"
    ELSE "low risk"
\* risk_level: comparisons with NaN are False
risk_level(delta, leverage) ==
    IF (GT(AbsValue(delta), 70) /\ GT(leverage, 10)) \/ GT(leverage, 15)
    THEN "high risk"
    ELSE IF (GT(AbsValue(delta), 50) /\ GT(leverage, 5)) \/ GT(leverage, 10)
    THEN "medium risk"
    ELSE "low risk"

\* the list of one row: characteristics
characteristics(d, row) ==
    LET delta == Get(row, "Delta", 0)
        leverage == Get(row, "leverage", 0)
    IN  delta_tag(delta) \o leverage_tag(leverage) \o vega_tag(d, row.Vega)
        \o theta_tag(row.Theta) \o type_tag(row.name)
        \o <<risk_level(delta, leverage)>>

\* analyze_option_characteristics: a copy of the frame with the list of
\* every row in a new column
analyze_option_characteristics(d) ==
    [i \in 1..Len(d) |->
        [k \in DOMAIN d[i] \cup {"features"} |->
            IF k = "features" THEN characteristics(d, d[i]) ELSE d[i][k]]]

RiskLoad(d) ==
    /\ pc = "load"
    /\ contracts' = d
    /\ pc' = "contracts"
    /\ UNCHANGED df_analysis
    /\ UNCHANGED <<coreVars, resonanceVars, fetchVars, proxyVars>>

\* display_df = analyze_option_characteristics(df)
AnalyzeContracts ==
    /\ pc = "contracts"
    /\ df_analysis' = analyze_option_characteristics(contracts)
    /\ pc' = "analyzed"
    /\ UNCHANGED contracts
    /\ UNCHANGED <<coreVars, resonanceVars, fetchVars, proxyVars>>

\* risk inputs: frames of one row over the grid of values around the
\* thresholds, or of that row and one of a few second rows; with every
\* column, without the Delta column, or without the leverage column
DeltaValues == {NaN, -80, -60, 50, 51, 70, 71}
LeverageValues == {NaN, -3, 5, 6, 10, 11, 15, 16}
ContractRow(de, le, ve, th, na) ==
    [Delta |-> de, leverage |-> le, Vega |-> ve, Theta |-> th, name |-> na]
FirstRows ==
    {ContractRow(de, le, ve, th, na) :
        de \in DeltaValues, le \in LeverageValues, ve \in {NaN, 1, 3},
        th \in {NaN, -60, 10}, na \in {"call", "put"}}
SecondRows ==
    {ContractRow(60, 6, 2, 30, "put"), ContractRow(-80, 11, NaN, 10, "call"),
     ContractRow(NaN, 16, 3, NaN, "other"), ContractRow(50, 5, 1, 60, "call")}
Without(row, key) == [k \in DOMAIN row \ {key} |-> row[k]]
FullFrames == {<<r>> : r \in FirstRows} \cup {<<r, q>> : r \in FirstRows, q \in SecondRows}
ContractFrames ==
    FullFrames
    \cup {[i \in 1..Len(f) |-> Without(f[i], "Delta")] : f \in FullFrames}
    \cup {[i \in 1..Len(f) |-> Without(f[i], "leverage")] : f \in FullFrames}

(***************************************************************************)
(* Specifications                                                          *)
(***************************************************************************)
\* the scorer and the decision chain on every enriched row
Next ==
    \/ pc = "load" /\ \E s \in ShortSeries : LoadData(s)
    \/ CalcIndicators
    \/ pc = "trend" /\ \E r \in TrendRows(latest) : ScoreTrend(r)
    \/ pc = "momentum" /\ \E r \in MomentumRows(latest) : ScoreMomentum(r)
    \/ pc = "position" /\ \E r \in PositionRows(latest) : ScorePosition(r)
    \/ pc = "energy" /\ \E r \in EnergyRows(latest) : ScoreEnergy(r)
    \/ pc = "volatility" /\ \E r \in VolatilityRows(latest) :
          \E p \in PrevRows(df, r, prev) : ScoreVolatility(r, p)
    \/ ScoreTotal
    \/ Decide

Spec == Init /\ [][Next]_vars

\* the page as it runs: the rows are the ones calculate_technical_indicators
\* computes from the loaded series
NextPipe ==
    \/ pc = "load" /\ \E s \in FamilySeries : LoadData(s)
    \/ CalcIndicators
    \/ ScoreTrend(latest)
    \/ ScoreMomentum(latest)
    \/ ScorePosition(latest)
    \/ ScoreEnergy(latest)
    \/ ScoreVolatility(latest, prev)
    \/ ScoreTotal
    \/ Decide

SpecPipe == Init /\ [][NextPipe]_vars

\* the turtle page: signals, the position followed bar by bar, the calculator
NextTurtle ==
    \/ pc = "load" /\ \E s \in TurtleSeries : \E P \in TurtlePeriods : TurtleLoad(s, P)
    \/ TurtleSignals
    \/ ShowRealTimeSignal
    \/ ScanBar
    \/ pc = "turtle page" /\ \E z \in SizingInputs : RiskManagement(z)

SpecTurtle == Init /\ [][NextTurtle]_vars

\* the level detector and the page code that shows its result
NextLevels ==
    \/ pc = "load" /\ \E a \in LevelInputs : \E w \in LevelWindows : LevelsLoad(a, w)
    \/ CalculateSupportResistance
    \/ ChartOverlay
    \/ LevelSection

SpecLevels == Init /\ [][NextLevels]_vars

\* a caller's frame handed to one of the three functions
NextFrames ==
    \/ pc = "load" /\ \E f \in FrameInputs : FrameLoad(f)
    \/ SharedIndicators
    \/ PageIndicators
    \/ pc = "call" /\ \E P \in TurtlePeriods : TurtleSignalsCall(P)

SpecFrames == Init /\ [][NextFrames]_vars

\* the resonance analysis of the latest row
NextResonance ==
    \/ pc = "load" /\ \E l \in ResonanceRows : \E p \in ResonancePrevRows :
           ResonanceLoad(l, p)
    \/ ResonanceAnalysis
    \/ Conclude
    \/ Advise

SpecResonance == Init /\ [][NextResonance]_vars

\* calls of _fetch_with_retry for one cache name
NextFetch ==
    \/ \E n \in 0..MaxRetries : FetchCall(n)
    \/ \E o \in FetchOutcomes : \E w \in WriteOutcomes : Attempt(o, w)
    \/ Fallback

SpecFetch == Init /\ [][NextFetch]_vars

\* threads calling ensure_proxy_running, and the server threads they start
NextProxy ==
    \/ \E c \in Callers : ProxyCall(c)
    \/ \E c \in Callers : CheckThread(c)
    \/ \E c \in Callers : CheckPort(c)
    \/ \E c \in Callers : StartServer(c)
    \/ \E s \in 1..(MaxCallers * MaxProxyCalls) : ServerRun(s)

SpecProxy == Init /\ [][NextProxy]_vars

\* the option chain handed to analyze_option_characteristics
NextRisk ==
    \/ pc = "load" /\ \E d \in ContractFrames : RiskLoad(d)
    \/ AnalyzeContracts

SpecRisk == Init /\ [][NextRisk]_vars

TypeOK ==
    /\ pc \in {"load", "indicators", "trend", "momentum", "position", "energy",
               "volatility", "total", "decide", "done"}
    /\ ma_sig \in -1..1 /\ macd_sig \in -1..1 /\ pos_sig \in -1..1
    /\ energy_sig \in -1..1 /\ volatility_sig \in -1..1
    /\ branch \in 0..9

(***************************************************************************)
(* Properties of the scorer and the decision chain (under Spec)            *)
(***************************************************************************)
Signs == {-1, 0, 1}

\* C1: each of the five dimension scores is -1, 0 or +1 whatever the row
\* holds (values or "no value"), and once computed the composite is exactly
\* their unweighted sum, hence within -5..+5.
C1_ScoreIsSum ==
    /\ ma_sig \in Signs /\ macd_sig \in Signs /\ pos_sig \in Signs
    /\ energy_sig \in Signs /\ volatility_sig \in Signs
    /\ pc \in {"decide", "done"} =>
          /\ score = ma_sig + macd_sig + pos_sig + energy_sig + volatility_sig
          /\ score \in -5..5

\* all five dimensions bullish: the composite reaches its maximum
C1_Witness ==
    /\ pc = "done"
    /\ ma_sig = 1 /\ macd_sig = 1 /\ pos_sig = 1 /\ energy_sig = 1
    /\ volatility_sig = 1
    /\ score = 5

\* C2: the decision chain is total: for every composite and volatility score
\* at most one elif condition holds (so exactly one branch fires: that one,
\* or one arm of the final else when none holds), and the branch that fired
\* left a non-empty label, rationale and note list, which depend on the
\* branch alone.
C2_MapperTotal ==
    pc = "done" =>
        /\ Cardinality({k \in 1..6 : Cond(k, score)}) <= 1
        /\ branch \in 1..9
        /\ branch \in 1..6 => Cond(branch, score)
        /\ branch \in 7..9 => \A k \in 1..6 : ~Cond(k, score)
        /\ branch = 7 <=> ((\A k \in 1..6 : ~Cond(k, score)) /\ volatility_sig = 1)
        /\ branch = 8 <=> ((\A k \in 1..6 : ~Cond(k, score)) /\ volatility_sig = -1)
        /\ advice # "" /\ explain # "" /\ Len(extra) > 0
        /\ \A b \in 1..9 : Recommendation(b).advice = advice => b = branch

\* the lowest composite, decided
C2_Witness == pc = "done" /\ score = -5 /\ branch = 2

\* C3: the label the chain produces is the one of the mapping table for every
\* composite and volatility score, and outside the band -1..+1 the label is
\* the same for every volatility score.
C3_DecisionTable ==
    pc = "done" =>
        /\ advice = RuleDoc(score, volatility_sig)
        /\ score \notin -1..1 =>
              \A v \in Signs : Recommendation(Branch(score, v)).advice = advice
        /\ explain = Recommendation(branch).explain
        /\ extra = Recommendation(branch).extra

\* a composite of +2 reached with rising volatility: still the short put
C3_Witness ==
    pc = "done" /\ score = 2 /\ volatility_sig = 1 /\ advice = "Sell Put"

\* the volatility step has run on the row in latest
AfterVolatility == pc = "total"
HvRose ==
    /\ Len(df) >= 2 /\ ~isnan(latest.HV20) /\ ~isnan(prev.HV20)
    /\ 100 * latest.HV20 > 105 * prev.HV20
HvFell ==
    /\ Len(df) >= 2 /\ ~isnan(latest.HV20) /\ ~isnan(prev.HV20)
    /\ 100 * latest.HV20 < 95 * prev.HV20
WidthRose ==
    /\ ~isnan(latest.BB_Width) /\ ~isnan(latest.BB_Width_MA5)
    /\ 100 * latest.BB_Width > 110 * latest.BB_Width_MA5
WidthFell ==
    /\ ~isnan(latest.BB_Width) /\ ~isnan(latest.BB_Width_MA5)
    /\ 100 * latest.BB_Width < 90 * latest.BB_Width_MA5

\* C4 as stated: when the two comparisons disagree the historical-volatility
\* comparison decides (HV up, width down: +1; HV down, width up: -1).
C4_HvDecides ==
    AfterVolatility =>
        /\ (HvRose /\ WidthFell) => volatility_sig = 1
        /\ (HvFell /\ WidthRose) => volatility_sig = -1

\* C4 amended: when the two comparisons disagree the rise decides, whichever
\* measure rose: the score is +1 in both cases.
C4_RiseDecides ==
    AfterVolatility =>
        /\ (HvRose /\ WidthFell) => volatility_sig = 1
        /\ (HvFell /\ WidthRose) => volatility_sig = 1

\* historical volatility fell, the band width rose, and the score is +1
C4_Witness == AfterVolatility /\ HvFell /\ WidthRose /\ volatility_sig = 1

\* the position step has run on the row in latest
AfterPosition == pc = "energy"
BandsDefined ==
    ~isnan(latest.BB_Middle) /\ ~isnan(latest.BB_Upper) /\ ~isnan(latest.BB_Lower)
OutsideBands == latest.close > latest.BB_Upper \/ latest.close < latest.BB_Lower
SideOfMiddle ==
    IF latest.close > latest.BB_Middle THEN 1
    ELSE IF latest.close < latest.BB_Middle THEN -1 ELSE 0

\* C7 as stated: 0 strictly outside the bands, else the side of the middle
\* band (0 on it or without bands); a close exactly on the upper band scores
\* +1 and exactly on the lower band -1.
C7_PositionRule ==
    AfterPosition =>
        IF ~BandsDefined THEN pos_sig = 0
        ELSE /\ OutsideBands => pos_sig = 0
             /\ ~OutsideBands => pos_sig = SideOfMiddle
             /\ latest.close = latest.BB_Upper => pos_sig = 1
             /\ latest.close = latest.BB_Lower => pos_sig = -1

\* C7 amended: as stated, except that a close exactly on the upper (lower)
\* band scores +1 (-1) only when that band differs from the middle band; with
\* bands of zero width the close on them is on the middle band and scores 0.
C7_PositionRuleAmended ==
    AfterPosition =>
        IF ~BandsDefined THEN pos_sig = 0
        ELSE /\ OutsideBands => pos_sig = 0
             /\ ~OutsideBands => pos_sig = SideOfMiddle
             /\ (latest.close = latest.BB_Upper /\ latest.BB_Upper > latest.BB_Middle)
                    => pos_sig = 1
             /\ (latest.close = latest.BB_Lower /\ latest.BB_Lower < latest.BB_Middle)
                    => pos_sig = -1
             /\ (latest.close = latest.BB_Upper /\ latest.BB_Upper = latest.BB_Middle)
                    => pos_sig = 0

\* a close exactly on an upper band above the middle band, scored +1
C7_Witness ==
    /\ AfterPosition /\ BandsDefined
    /\ latest.close = latest.BB_Upper /\ latest.BB_Upper > latest.BB_Middle
    /\ pos_sig = 1

\* the energy step has run on the row in latest
AfterEnergy == pc = "volatility"
HighVolume5 ==
    /\ ~isnan(latest.Volume_MA5) /\ latest.Volume_MA5 # 0
    /\ 10 * latest.volume > 12 * latest.Volume_MA5

AfterTrend == pc = "momentum"
AveragesDefined == ~isnan(latest.MA5) /\ ~isnan(latest.MA10) /\ ~isnan(latest.MA20)
BullAligned ==
    /\ AveragesDefined /\ latest.close > latest.MA20
    /\ latest.MA5 > latest.MA10 /\ latest.MA10 > latest.MA20
BearAligned ==
    /\ AveragesDefined /\ latest.close < latest.MA20
    /\ latest.MA5 < latest.MA10 /\ latest.MA10 < latest.MA20

\* C9: +1 exactly when close > MA20 and MA5 > MA10 > MA20, -1 exactly when
\* close < MA20 and MA5 < MA10 < MA20, 0 otherwise; the two never hold together.
C9_TrendRule ==
    AfterTrend =>
        /\ ma_sig = 1 <=> BullAligned
        /\ ma_sig = -1 <=> BearAligned
        /\ ma_sig = 0 <=> (~BullAligned /\ ~BearAligned)
        /\ ~(BullAligned /\ BearAligned)

\* a bearish alignment, scored -1
C9_Witness == AfterTrend /\ BearAligned /\ ma_sig = -1

(***************************************************************************)
(* Properties of the page on loaded series (under SpecPipe)                *)
(***************************************************************************)
Decided == pc = "done"

StrictlyIncreasing(d) == \A i \in 2..Len(d) : d[i].close > d[i - 1].close

\* every bar has the same open, high, low, close and volume
FlatSeries(d) == \A i \in 1..Len(d) : d[i] = d[1] /\ d[1].open = d[1].close

\* scenario 1: closes strictly increasing, MA5 > MA10 > MA20, MACD positive
\* and above its signal, volume 1.5 times its 5-day average on an up day,
\* volatility neutral
BullScenario ==
    /\ Decided
    /\ StrictlyIncreasing(df)
    /\ AveragesDefined
    /\ latest.MA5 > latest.MA10 /\ latest.MA10 > latest.MA20
    /\ latest.MACD > 0 /\ latest.MACD > latest.MACD_Signal
    /\ 2 * latest.volume = 3 * latest.Volume_MA5
    /\ latest.close >= latest.open
    /\ volatility_sig = 0

\* C5 as stated: in scenario 1 trend, momentum and volume score +1 and the
\* recommendation for the composite (>= +3) is the plain bull call spread.
C5_BullScenarioPlainSpread ==
    BullScenario =>
        /\ ma_sig = 1 /\ macd_sig = 1 /\ energy_sig = 1
        /\ score >= 3
        /\ advice = "Bull Call Spread"

\* C5 amended: in scenario 1 trend, momentum and volume score +1 and the
\* position score is 0 or +1; the recommendation is the plain bull call
\* spread when the composite is +3 (close above the upper band) and the bull
\* call spread plus short put when it is +4 (close inside the bands).
C5_BullScenarioAmended ==
    BullScenario =>
        /\ ma_sig = 1 /\ macd_sig = 1 /\ energy_sig = 1
        /\ pos_sig \in {0, 1}
        /\ score = 3 + pos_sig
        /\ pos_sig = 0 => advice = "Bull Call Spread"
        /\ pos_sig = 1 => advice = "Bull Call Spread + Sell Put"

\* scenario 1 with the close above the upper band: composite +3
C5_Witness == BullScenario /\ score = 3 /\ advice = "Bull Call Spread"

\* C6: on a flat series of at least 60 bars all five dimension scores are 0,
\* the composite is 0 and the recommendation is the iron butterfly.
C6_FlatSeriesNeutral ==
    (Decided /\ FlatSeries(df) /\ Len(df) >= 60) =>
        /\ ma_sig = 0 /\ macd_sig = 0 /\ pos_sig = 0 /\ energy_sig = 0
        /\ volatility_sig = 0
        /\ score = 0
        /\ advice = "Iron Butterfly"

\* a flat series of 60 bars or more, decided
C6_Witness == Decided /\ FlatSeries(df) /\ Len(df) >= 60 /\ branch = 9

\* C10: on a series too short for an indicator's window every dimension that
\* reads the indicator scores 0 (trend and position below 20 bars, volume
\* below 5 bars, volatility always, its columns being absent), and for every
\* length from 1 bar the page still reaches exactly one recommendation for
\* the composite of the five scores.
C10_ShortSeriesDegrade ==
    /\ pc \in {"momentum", "position", "energy", "volatility", "total", "decide", "done"}
          => (Len(df) < 20 => (isnan(latest.MA20) /\ ma_sig = 0))
    /\ pc \in {"energy", "volatility", "total", "decide", "done"}
          => (Len(df) < 20 => (isnan(latest.BB_Middle) /\ pos_sig = 0))
    /\ pc \in {"volatility", "total", "decide", "done"}
          => (Len(df) < 5 => (isnan(latest.Volume_MA5) /\ energy_sig = 0))
    /\ pc \in {"total", "decide", "done"}
          => ("HV20" \notin DOMAIN latest => volatility_sig = 0)
    /\ Decided =>
          /\ score = ma_sig + macd_sig + pos_sig + energy_sig + volatility_sig
          /\ branch \in 1..9
          /\ advice = Recommendation(branch).advice /\ advice # ""

\* a series of one bar, decided
C10_Witness == Decided /\ Len(df) = 1 /\ isnan(latest.MA5) /\ score = 0

(***************************************************************************)
(* Properties of the turtle page (under SpecTurtle)                        *)
(***************************************************************************)
\* the frame as turtle_strategy_signals returned it
SignalsComputed == pc = "turtle page"

\* the bars of the frame without the added columns
BarsOf(d) == [i \in 1..Len(d) |-> [high |-> d[i].high, low |-> d[i].low, close |-> d[i].close]]

\* the highest high and the lowest low of the n bars ending at bar t - 1
HighestBefore(d, t, n) ==
    CHOOSE m \in {d[k].high : k \in (t - n)..(t - 1)} :
        \A k \in (t - n)..(t - 1) : d[k].high <= m
LowestBefore(d, t, n) ==
    CHOOSE m \in {d[k].low : k \in (t - n)..(t - 1)} :
        \A k \in (t - n)..(t - 1) : d[k].low >= m

\* bar t with another high and low
WithHighLow(d, t, h, l) == [d EXCEPT ![t].high = h, ![t].low = l]

\* C11: the four breakout signals at bar t compare close(t) with the channel
\* of the entry_period (exit_period) bars ending at t - 1: long_entry iff the
\* close is above their highest high, short_entry iff below their lowest low,
\* long_exit iff below the lowest low of the exit bars, short_exit iff above
\* their highest high (no signal while those bars are not all there); another
\* high or low on bar t itself leaves the signals at t as they are.
C11_SignalsUseEarlierBars ==
    SignalsComputed =>
        \A t \in 1..Len(data) :
            LET e == periods.entry_period
                x == periods.exit_period
                c == data[t].close
            IN  /\ data[t].long_entry =
                       (t > e /\ c > HighestBefore(data, t, e))
                /\ data[t].short_entry =
                       (t > e /\ c < LowestBefore(data, t, e))
                /\ data[t].long_exit =
                       (t > x /\ c < LowestBefore(data, t, x))
                /\ data[t].short_exit =
                       (t > x /\ c > HighestBefore(data, t, x))
                /\ \A h \in c..(MaxTurtlePrice + 1), l \in 0..c :
                       LET d2 == WithHighLow(BarsOf(data), t, h, l)
                       IN  /\ long_entry(d2, periods, t) = data[t].long_entry
                           /\ short_entry(d2, periods, t) = data[t].short_entry
                           /\ long_exit(d2, periods, t) = data[t].long_exit
                           /\ short_exit(d2, periods, t) = data[t].short_exit

\* a breakout bar whose own high lies above its close, and an exit bar
C11_Witness ==
    /\ pc = "turtle page"
    /\ \E t \in 1..Len(data) :
           data[t].long_entry /\ data[t].high > data[t].close
    /\ \E t \in 1..Len(data) : data[t].long_exit /\ data[t].low < data[t].close

\* the position before bar u of the scan
Before(u) == IF u = 1 THEN "flat" ELSE trail[u - 1]

\* C12: followed bar by bar over {flat, long, short}, a position entered on
\* a breakout bar is long on that bar (the breakout bar carries no long
\* exit), and a long position becomes flat exactly on the first later bar
\* whose close is below the lowest low of the exit_period bars before it;
\* the same for short with the highest high; long and short never follow
\* one another directly.
C12_TurtleStates ==
    pc = "scan" =>
        \A u \in 1..bar :
            LET x == periods.exit_period
                e == periods.entry_period
                c == data[u].close
            IN  /\ (Before(u) = "flat" /\ trail[u] = "long") =>
                       (u > e /\ c > HighestBefore(data, u, e) /\ ~data[u].long_exit)
                /\ (Before(u) = "flat" /\ trail[u] = "short") =>
                       (u > e /\ c < LowestBefore(data, u, e) /\ ~data[u].short_exit)
                /\ Before(u) = "long" =>
                       /\ trail[u] \in {"long", "flat"}
                       /\ (trail[u] = "flat") = (u > x /\ c < LowestBefore(data, u, x))
                /\ Before(u) = "short" =>
                       /\ trail[u] \in {"short", "flat"}
                       /\ (trail[u] = "flat") = (u > x /\ c > HighestBefore(data, u, x))

\* a long position entered on one bar and closed on a later one
C12_Witness ==
    /\ pc = "scan"
    /\ bar = Len(data)
    /\ \E u \in 1..bar : \E v \in (u + 1)..bar :
           /\ Before(u) = "flat" /\ trail[u] = "long"
           /\ Before(v) = "long" /\ trail[v] = "flat"

\* the latest ATR as the calculator reads it
LatestATR == data[Len(data)].ATR

\* risk amount and stop distance over the common denominator 10000 * ATR[2]:
\* account * percent / 1000  and  ATR[1] * multiple / (ATR[2] * 10)
RiskTimes == sizing.account_size * sizing.risk_percent * LatestATR[2] * 10
StopTimes == LatestATR[1] * sizing.atr_multiple * 1000

LevelsReturned == pc = "chart" /\ support_resistance.keys # {}

CurrentPrice == support_resistance.current_price
Grouped == support_resistance.all_levels
Supports == support_resistance.supports
Resistances == support_resistance.resistances

Elements(ls) == {ls[i] : i \in 1..Len(ls)}
EntryOf(g) == [price |-> g.price, source |-> g.sources]

\* ratios a and b are the same price
SamePrice(a, b) == a[1] * b[2] = b[1] * a[2]

\* C14: every level of 'supports' has its price strictly below the current
\* close, every level of 'resistances' strictly above it, and no level is
\* in both lists.
C14_LevelsOnTheirSide ==
    LevelsReturned =>
        /\ \A i \in 1..Len(Supports) :
               Supports[i].price[1] < CurrentPrice * Supports[i].price[2]
        /\ \A j \in 1..Len(Resistances) :
               Resistances[j].price[1] > CurrentPrice * Resistances[j].price[2]
        /\ \A i \in 1..Len(Supports) : \A j \in 1..Len(Resistances) :
               ~SamePrice(Supports[i].price, Resistances[j].price)

\* both lists hold levels, and a merged level typed support lies above the
\* close (it is left out)
C14_Witness ==
    /\ LevelsReturned
    /\ Supports # <<>>
    /\ Resistances # <<>>
    /\ \E i \in 1..Len(Grouped) :
           /\ Grouped[i].types \cap {"support", "support/resistance"} # {}
           /\ Grouped[i].price[1] > CurrentPrice * Grouped[i].price[2]

\* a merged level lies below (above) the current close
BelowClose(g) == g.price[1] < CurrentPrice * g.price[2]
AboveClose(g) == g.price[1] > CurrentPrice * g.price[2]
\* some member of the merged level carries a support (resistance) tag
SupportTagged(g) == \E ty \in g.types : ty # "resistance"
ResistanceTagged(g) == \E ty \in g.types : ty # "support"

\* the level is in the list, or the list is full with five nearer levels
ListedSupport(g) ==
    \/ EntryOf(g) \in Elements(Supports)
    \/ Len(Supports) = 5 /\ RatioLess(g.price, Supports[5].price)
ListedResistance(g) ==
    \/ EntryOf(g) \in Elements(Resistances)
    \/ Len(Resistances) = 5 /\ RatioLess(Resistances[5].price, g.price)

\* C15 as claimed: a level is bucketed by its side of the close alone: every
\* merged level below the close is a support and every one above it a
\* resistance, however its members were found (a full list leaves out only
\* levels farther from the close than its five).
C15_BucketedBySide ==
    LevelsReturned =>
        \A i \in 1..Len(Grouped) :
            /\ BelowClose(Grouped[i]) => ListedSupport(Grouped[i])
            /\ AboveClose(Grouped[i]) => ListedResistance(Grouped[i])

\* the tag a candidate gets from the way it was found
TagOf(c) ==
    IF c.source = "local high" \/ c.source = "BB upper" THEN "resistance"
    ELSE IF c.source = "local low" \/ c.source = "BB lower" THEN "support"
    ELSE IF c.source = "dense area" THEN "support/resistance"
    ELSE IF c.price < CurrentPrice THEN "support" ELSE "resistance"

\* C15 as amended: a candidate is tagged by the way it was found (local
\* high and upper band: resistance; local low and lower band: support;
\* dense bin: both; moving average and middle band: by their side of the
\* close), and a merged level is a support only if it lies below the close
\* and one of its members carries a support tag, a resistance only if it
\* lies above the close and one of its members carries a resistance tag; a
\* level on one side whose members all carry the other tag is in neither
\* list.
C15_BucketedByTagAndSide ==
    LevelsReturned =>
        /\ \A k \in 1..Len(all_levels) : all_levels[k].type = TagOf(all_levels[k])
        /\ \A i \in 1..Len(Grouped) :
               LET g == Grouped[i]
               IN  /\ EntryOf(g) \in Elements(Supports) =>
                          BelowClose(g) /\ SupportTagged(g)
                   /\ EntryOf(g) \in Elements(Resistances) =>
                          AboveClose(g) /\ ResistanceTagged(g)
                   /\ (BelowClose(g) /\ SupportTagged(g)) => ListedSupport(g)
                   /\ (AboveClose(g) /\ ResistanceTagged(g)) => ListedResistance(g)
                   /\ (BelowClose(g) /\ ~SupportTagged(g)) =>
                          EntryOf(g) \notin Elements(Supports) \cup Elements(Resistances)
                   /\ (AboveClose(g) /\ ~ResistanceTagged(g)) =>
                          EntryOf(g) \notin Elements(Supports) \cup Elements(Resistances)

\* a local high alone in its level below the close, and a dense bin that
\* is a support
C15_Witness ==
    /\ LevelsReturned
    /\ \E i \in 1..Len(Grouped) :
           BelowClose(Grouped[i]) /\ Grouped[i].sources = {"local high"}
    /\ \E i \in 1..Len(Grouped) :
           /\ Grouped[i].sources = {"dense area"}
           /\ EntryOf(Grouped[i]) \in Elements(Supports)

\* one percent of the current close, for whole prices and for ratios
WithinTolerance(p, q) == 100 * Abs(p - q) <= CurrentPrice
RatiosWithinTolerance(a, b) ==
    100 * Abs(a[1] * b[2] - b[1] * a[2]) <= CurrentPrice * a[2] * b[2]

\* C16: after the merge any two candidates within 1% of the current close
\* of each other belong to one merged level (which then names both their
\* sources), and no two merged levels lie within 1% of the close of each
\* other.
C16_MergedWithinTolerance ==
    LevelsReturned =>
        /\ \A k \in 1..Len(all_levels) : \A m \in 1..Len(all_levels) :
               WithinTolerance(all_levels[k].price, all_levels[m].price) =>
                   \E i \in 1..Len(Grouped) :
                       {all_levels[k].source, all_levels[m].source} \subseteq Grouped[i].sources
        /\ \A i \in 1..Len(Grouped) : \A j \in 1..Len(Grouped) :
               i # j => ~RatiosWithinTolerance(Grouped[i].price, Grouped[j].price)

\* the merged levels that qualify as supports and as resistances
QualifiedSupports == {g \in Elements(Grouped) : BelowClose(g) /\ SupportTagged(g)}
QualifiedResistances == {g \in Elements(Grouped) : AboveClose(g) /\ ResistanceTagged(g)}

\* C17: 'supports' is in strictly descending price order and 'resistances'
\* in strictly ascending price order, each holds at most five levels, and
\* these are the levels nearest to the close among those that qualified.
C17_NearestFive ==
    LevelsReturned =>
        /\ Len(Supports) = Min2(5, Cardinality(QualifiedSupports))
        /\ Len(Resistances) = Min2(5, Cardinality(QualifiedResistances))
        /\ \A i \in 1..(Len(Supports) - 1) :
               RatioLess(Supports[i + 1].price, Supports[i].price)
        /\ \A j \in 1..(Len(Resistances) - 1) :
               RatioLess(Resistances[j].price, Resistances[j + 1].price)
        /\ Elements(Supports) \subseteq {EntryOf(g) : g \in QualifiedSupports}
        /\ Elements(Resistances) \subseteq {EntryOf(g) : g \in QualifiedResistances}
        /\ \A g \in QualifiedSupports :
               EntryOf(g) \notin Elements(Supports) =>
                   \A i \in 1..Len(Supports) : RatioLess(g.price, Supports[i].price)
        /\ \A g \in QualifiedResistances :
               EntryOf(g) \notin Elements(Resistances) =>
                   \A j \in 1..Len(Resistances) : RatioLess(Resistances[j].price, g.price)

\* more than five levels qualified on each side
C17_Witness ==
    /\ LevelsReturned
    /\ Cardinality(QualifiedSupports) > 5
    /\ Cardinality(QualifiedResistances) > 5
    /\ Len(Supports) = 5

\* the frame handed in is missing, empty or shorter than the window
ShortFrame == df_none \/ Len(df) < window

\* C18: on a missing, empty or too short frame calculate_support_resistance
\* returns a result (not an error, not None) without supports and without
\* resistances, the chart draws no level line, and the level section ends
\* without an error, reporting that the data do not suffice.
C18_ShortFrameNoLevels ==
    (ShortFrame /\ pc \in {"chart", "section", "shown"}) =>
        /\ support_resistance.kind = "dict"
        /\ GetList(support_resistance, "supports") = <<>>
        /\ GetList(support_resistance, "resistances") = <<>>
        /\ pc \in {"section", "shown"} => chart_lines = [supports |-> 0, resistances |-> 0]
        /\ pc = "shown" => page_error = "" /\ section.shown = "insufficient data"

\* a frame with bars, but fewer than the window, shown by the page
C18_Witness ==
    /\ pc = "shown"
    /\ ~df_none
    /\ Len(df) >= 1
    /\ Len(df) < window

(***************************************************************************)
(* Claims about the frame objects                                          *)
(***************************************************************************)
\* an indicator function has returned a frame with rows
IndicatorsReturned ==
    pc = "returned" /\ callee \in {"shared", "page"} /\ frames[ret].rows # <<>>
Returned == frames[ret].rows
\* the OBV of bar i less the OBV of the bar before it
ObvStep(i) == Returned[i].OBV - (IF i = 1 THEN 0 ELSE Returned[i - 1].OBV)

\* C19 as claimed: OBV is the running sum of signed volume: a bar's volume
\* is added when its close is greater than or equal to the previous close
\* (a flat close counts as +1) and subtracted when it is lower.
C19_FlatCountsUp ==
    IndicatorsReturned =>
        \A i \in 2..Len(Returned) :
            ObvStep(i) = IF Returned[i].close >= Returned[i - 1].close
                         THEN Returned[i].volume ELSE -Returned[i].volume

\* C19 as amended: OBV is the running sum of signed volume: a bar's volume
\* is added when its close is greater than the previous close, subtracted
\* when it is lower, and a bar with a flat close, like the first bar, adds
\* nothing.
C19_FlatCountsZero ==
    IndicatorsReturned =>
        /\ Returned[1].OBV = 0
        /\ \A i \in 2..Len(Returned) :
               ObvStep(i) = IF Returned[i].close > Returned[i - 1].close
                            THEN Returned[i].volume
                            ELSE IF Returned[i].close < Returned[i - 1].close
                            THEN -Returned[i].volume
                            ELSE 0

\* a rising, a flat and a falling close with volume in one returned frame
C19_Witness ==
    /\ IndicatorsReturned
    /\ \E i \in 2..Len(Returned) :
           Returned[i].close > Returned[i - 1].close /\ Returned[i].volume > 0
    /\ \E i \in 2..Len(Returned) :
           Returned[i].close = Returned[i - 1].close /\ Returned[i].volume > 0
    /\ \E i \in 2..Len(Returned) :
           Returned[i].close < Returned[i - 1].close /\ Returned[i].volume > 0

\* C20: after calculate_technical_indicators or turtle_strategy_signals has
\* returned, the caller's frame has exactly the rows and columns it had at
\* the call, and a frame that was enriched is a new object.
C20_InputNotMutated ==
    pc = "returned" =>
        /\ frames[arg] = before
        /\ frames[ret].columns # before.columns => ret # arg

(***************************************************************************)
(* Claims about the ATR column                                             *)
(***************************************************************************)
\* C21: the ATR column of window W has a value on every bar from the W-th
\* on (index W - 1 counted from 0) and on no bar before it.
C21_AtrFromWindowBar ==
    SignalsComputed =>
        \A i \in 1..Len(data) :
            ~ratio_isnan(data[i].ATR) <=> i >= periods.atr_period

(***************************************************************************)
(* Claims about what the page's rule text says                             *)
(***************************************************************************)
\* C22: as the rule text says, the volume dimension is 0 when the volume is
\* at most 1.2 times the 5-day average or when a high-volume bar closed
\* where it opened (a doji), +1 only on a high-volume bar that closed above
\* its open and -1 only on one that closed below it.
C22_DojiNeutral ==
    AfterEnergy =>
        /\ energy_sig = 0 <=> (~HighVolume5 \/ latest.close = latest.open)
        /\ energy_sig = 1 <=> (HighVolume5 /\ latest.close > latest.open)
        /\ energy_sig = -1 <=> (HighVolume5 /\ latest.close < latest.open)

\* the band of scores the rule text gives to a number of bullish quadrants
BandOfBullCount(b) ==
    IF b >= 3 THEN 6..8 ELSE IF b = 2 THEN 4..5 ELSE IF b = 1 THEN 2..3 ELSE 0..1
\* the conclusion and the advice name the same band
SameBand ==
    \/ resonance_conclusion = "strong" /\ current_advice = map_strategy_by_resonance(6)
    \/ resonance_conclusion = "moderate" /\ current_advice = map_strategy_by_resonance(4)
    \/ resonance_conclusion = "weak" /\ current_advice = map_strategy_by_resonance(2)
    \/ resonance_conclusion = "none" /\ current_advice = map_strategy_by_resonance(0)

\* C23: the resonance score always lies in the band the rule text gives to
\* the number of bullish quadrants (3-4: 6-8, 2: 4-5, 1: 2-3, 0: 0-1), so the
\* conclusion (by bullish count) and the option advice (by score) name the
\* same band.
C23_ScoreInBandOfCount ==
    pc = "advised" =>
        /\ resonance_score \in BandOfBullCount(bull_count)
        /\ SameBand

(***************************************************************************)
(* Claims about _fetch_with_retry and the cache file                       *)
(***************************************************************************)
\* the calls of fetch_fn so far that gave no table with rows
AllFailed(log) == \A i \in 1..Len(log) : ~(log[i].kind = "table" /\ log[i].table # <<>>)
\* the last call of fetch_fn gave a table with rows
LastGaveTable(log) ==
    Len(log) >= 1 /\ log[Len(log)].kind = "table" /\ log[Len(log)].table # <<>>
LastTable(log) == log[Len(log)].table
\* the file holds the text of every cell of the table
HoldsTable(c, t) ==
    /\ c.kind = "csv"
    /\ Len(c.lines) = Len(t)
    /\ \A i \in 1..Len(t) : c.lines[i] = t[i].text
\* the file is what a write of the table leaves when it breaks off
BrokenOff(c, t) ==
    \/ c.kind = "zero bytes"
    \/ /\ c.kind = "csv"
       /\ Len(c.lines) < Len(t)
       /\ \A i \in 1..Len(c.lines) : c.lines[i] = t[i].text

\* the order of the attempts: never more than retries calls of fetch_fn, a
\* further call only after failed ones, and a return from the loop on the
\* first table with rows, which is the value returned
AttemptsInOrder ==
    /\ pc \in {"attempt", "fallback", "fetched"} => Len(fetch_log) <= retries
    /\ pc = "attempt" =>
           Len(fetch_log) = attempt - 1 /\ attempt <= retries /\ AllFailed(fetch_log)
    /\ pc = "fallback" => Len(fetch_log) = retries /\ AllFailed(fetch_log)
    /\ pc = "fetched" =>
           /\ AllFailed(SubSeq(fetch_log, 1, Len(fetch_log) - 1))
           /\ LastGaveTable(fetch_log) => fetched = Return(LastTable(fetch_log))
           /\ ~LastGaveTable(fetch_log) => Len(fetch_log) = retries

AllAttemptsFailed ==
    pc = "fetched" /\ Len(fetch_log) = retries /\ AllFailed(fetch_log)

C28_NoConflictingSignals ==
    (SignalsComputed /\ \A i \in 1..Len(data) : data[i].high >= data[i].low) =>
        \A t \in 1..Len(data) :
            /\ ~(data[t].long_entry /\ data[t].long_exit)
            /\ ~(data[t].short_entry /\ data[t].short_exit)
            /\ ~(data[t].long_entry /\ data[t].short_entry)
            /\ t - 1 < periods.entry_period =>
                   ~data[t].long_entry /\ ~data[t].short_entry
            /\ t - 1 < periods.exit_period =>
                   ~data[t].long_exit /\ ~data[t].short_exit

\* a frame with a long entry, a short entry and both exits on its bars,
\* one of them with a close outside the range of its own bar
C28_Witness ==
    /\ SignalsComputed
    /\ \E t \in 1..Len(data) : data[t].long_entry /\ data[t].short_exit
    /\ \E t \in 1..Len(data) : data[t].short_entry /\ data[t].long_exit
    /\ \E t \in 1..Len(data) :
           data[t].close > data[t].high /\ data[t].long_entry

(***************************************************************************)
(* Claims about ensure_proxy_running                                       *)
(***************************************************************************)
\* C29: over any number of calls, also ones that overlap in time in
\* different threads, at most one server thread is ever started for the
\* port, and every call returns the same URL.
C29_AtMostOneServerThread ==
    /\ started <= 1
    /\ returned \subseteq {ProxyUrl}

(***************************************************************************)
(* Claims about the risk tag of a contract                                 *)
(***************************************************************************)
RiskTags == {"low risk", "medium risk", "high risk"}
RiskRank(tag) == IF tag = "low risk" THEN 0 ELSE IF tag = "medium risk" THEN 1 ELSE 2
\* the risk tags in the list of row i, and the one tag when there is one
RiskTagsAt(i) ==
    {k \in 1..Len(df_analysis[i].features) : df_analysis[i].features[k] \in RiskTags}
RiskTagOf(i) == df_analysis[i].features[CHOOSE k \in RiskTagsAt(i) : TRUE]
\* Delta and leverage of row i as numbers: none (NaN or no column) counts
\* as 0, under every threshold
Missing(i, key) == key \notin DOMAIN contracts[i] \/ contracts[i][key] = NaN
AbsDeltaOf(i) == IF Missing(i, "Delta") THEN 0 ELSE Abs(contracts[i].Delta)
LeverageOf(i) == IF Missing(i, "leverage") THEN 0 ELSE contracts[i].leverage

====
